---------------------------- MODULE Spec2Model ----------------------------
(***************************************************************************)
(* Blacklist persistence core: the Entity & Validation module, the         *)
(* BlacklistService / BlacklistRepository protocol over the store, and the *)
(* DatabaseConnection pool manager.                                        *)
(*                                                                         *)
(* Strings are sequences of one-character strings; an optional field is a  *)
(* sequence of length 0 (absent) or 1 (present).  Stored identifiers use a *)
(* single-case alphabet, so SQL equality is plain equality.                *)
(***************************************************************************)
EXTENDS Integers, Sequences, FiniteSets, TLC

(***************************************************************************)
(* Bounds of the model.                                                    *)
(***************************************************************************)
NumCallers == 2
MaxAddCalls == 3

Callers == 1..NumCallers

(***************************************************************************)
(* Entity & Validation module.                                             *)
(***************************************************************************)
None == <<>>
Some(s) == <<s>>

MaxIdentifierLen == 255
MaxCreatedByLen == 20
MaxNameLen == 100

IsSpace(c) == c = " "

RECURSIVE TrimStart(_)
TrimStart(s) ==
    IF s = <<>> THEN <<>>
    ELSE IF IsSpace(Head(s)) THEN TrimStart(Tail(s)) ELSE s

RECURSIVE TrimEnd(_)
TrimEnd(s) ==
    IF s = <<>> THEN <<>>
    ELSE IF IsSpace(s[Len(s)]) THEN TrimEnd(SubSeq(s, 1, Len(s) - 1)) ELSE s

\* String.prototype.trim
Trim(s) == TrimEnd(TrimStart(s))

\* `x && x.trim()` on an optional string: present, non-empty, non-blank
Usable(opt) == opt # None /\ opt[1] # <<>> /\ Trim(opt[1]) # <<>>

sanitizeBlacklistEntryInputMutTrimStart(input) ==
    [identifier |-> TrimStart(input.identifier),
     createdBy  |-> TrimStart(input.createdBy),
     firstName  |-> IF Usable(input.firstName)
                    THEN Some(TrimStart(input.firstName[1])) ELSE None,
     lastName   |-> IF Usable(input.lastName)
                    THEN Some(TrimStart(input.lastName[1])) ELSE None]
sanitizeBlacklistEntryInput(input) ==
    [identifier |-> Trim(input.identifier),
     createdBy  |-> Trim(input.createdBy),
     firstName  |-> IF Usable(input.firstName) THEN Some(Trim(input.firstName[1])) ELSE None,
     lastName   |-> IF Usable(input.lastName) THEN Some(Trim(input.lastName[1])) ELSE None]

identifierErrors(input) ==
    IF Len(Trim(input.identifier)) = 0 THEN <<"Identifier cannot be empty">>
    ELSE IF Len(input.identifier) > MaxIdentifierLen
         THEN <<"Identifier cannot exceed 255 characters">>
         ELSE <<>>

createdByErrors(input) ==
    IF Len(Trim(input.createdBy)) = 0 THEN <<"CreatedBy cannot be empty">>
    ELSE IF Len(input.createdBy) > MaxCreatedByLen
         THEN <<"CreatedBy cannot exceed 20 characters">>
         ELSE <<>>

firstNameErrors(input) ==
    IF input.firstName # None /\ Len(input.firstName[1]) > MaxNameLen
    THEN <<"FirstName cannot exceed 100 characters">> ELSE <<>>

lastNameErrors(input) ==
    IF input.lastName # None /\ Len(input.lastName[1]) > MaxNameLen
    THEN <<"LastName cannot exceed 100 characters">> ELSE <<>>

validateBlacklistEntryMutAlwaysValid(input) == [isValid |-> TRUE, errors |-> <<>>]
validateBlacklistEntryMutFirstOnly(input) ==
    LET errors == identifierErrors(input) \o createdByErrors(input)
                  \o firstNameErrors(input) \o lastNameErrors(input)
    IN [isValid |-> Len(errors) = 0, errors |-> SubSeq(errors, 1, 1)]
validateBlacklistEntry(input) ==
    LET errors == identifierErrors(input) \o createdByErrors(input)
                  \o firstNameErrors(input) \o lastNameErrors(input)
    IN [isValid |-> Len(errors) = 0, errors |-> errors]

(***************************************************************************)
(* Arguments the callers pass to addEntry.                                 *)
(***************************************************************************)
EntryInput(identifier, createdBy, firstName, lastName) ==
    [identifier |-> identifier, createdBy |-> createdBy,
     firstName |-> firstName, lastName |-> lastName]

EntryInputs ==
    {EntryInput(<<"a">>, <<"u">>, None, None),
     EntryInput(<<" ", "a">>, <<"u", " ">>, Some(<<"j", " ">>), Some(<<" ">>)),
     EntryInput(<<"b">>, <<"u">>, Some(<<"j">>), Some(<<"d">>)),
     EntryInput(<<"a">>, <<>>, None, Some(<<"d">>)),
     EntryInput(<<" ">>, <<"u">>, Some(<<>>), None)}

NoInput ==
    [identifier |-> <<>>, createdBy |-> <<>>, firstName |-> None, lastName |-> None]

(***************************************************************************)
(* State.                                                                  *)
(*   store, nextId : the blacklist_entries table and its AUTO_INCREMENT    *)
(*   svcPc, svcArg, svcOut : each caller's addEntry call in flight         *)
(*   svcOverlap, svcSnap, svcEnd, svcHad, svcCalled, svcStarted : history  *)
(*     of the call (callers whose calls overlapped it, the store when it   *)
(*     started and when it settled, whether the identifier was stored at   *)
(*     its start, the repository methods it invoked and those that threw)  *)
(***************************************************************************)
VARIABLES store, nextId, svcPc, svcArg, svcOut,
          svcOverlap, svcSnap, svcEnd, svcHad, svcCalled, svcStarted

svcVars == <<store, nextId, svcPc, svcArg, svcOut,
             svcOverlap, svcSnap, svcEnd, svcHad, svcCalled, svcStarted>>

\* The getById, removeEntry and searchEntries calls in flight and their
\* history (see below)
VARIABLES opPc, opName, opId, opCriteria, opOut, opSnap, opEnd, opCalled,
          opSaw, opStarted, removed, opQuery

opVars == <<opPc, opName, opId, opCriteria, opOut, opSnap, opEnd, opCalled,
            opSaw, opStarted, removed, opQuery>>

\* The state of the DatabaseConnection singleton and of the calls on it
VARIABLES pool, reconnectAttempts, pools, stack, hist, calls, createPool,
          established, overlapped

connVars == <<pool, reconnectAttempts, pools, stack, hist, calls, createPool,
              established, overlapped>>

\* The construction of the DatabaseConnection singleton
VARIABLES mysqlUrl, instance, ctorOut

ctorVars == <<mysqlUrl, instance, ctorOut>>

\* The validation and sanitization functions applied to an input
VARIABLES fnIn, fnName, fnOut, fnPrev

fnVars == <<fnIn, fnName, fnOut, fnPrev>>

\* The commands /addbl and /removebl and the permission middleware
VARIABLES cmdPc, cmdName, cmdIx, cmdArg, cmdPerm, cmdDeferred, cmdLog, cmdStarted

cmdVars == <<cmdPc, cmdName, cmdIx, cmdArg, cmdPerm, cmdDeferred, cmdLog, cmdStarted>>

MsgValidation == "Validation failed"
MsgDuplicate == "Duplicate entry: An entry with identifier already exists"
MsgCheckFailed == "Failed to check for duplicate entry"
MsgVerifyFailed == "Failed to verify entry uniqueness"
MsgAddFailed == "Failed to add blacklist entry to database"

Pending == [kind |-> "pending", id |-> 0, msg |-> ""]
Resolved(id) == [kind |-> "resolved", id |-> id, msg |-> ""]
Rejected(msg) == [kind |-> "rejected", id |-> 0, msg |-> msg]

\* error.message.includes('Duplicate entry'), case-sensitive
IncludesDuplicateEntryMutAny(msg) == msg \in STRING
IncludesDuplicateEntry(msg) == msg = MsgDuplicate

\* The table is created with COLLATE=utf8mb4_unicode_ci: = and LIKE compare
\* letters without regard to case
Fold(ch) == CASE ch = "J" -> "j" [] ch = "A" -> "a" [] OTHER -> ch

\* s = t under the collation of the table
CollationEq(s, t) ==
    /\ Len(s) = Len(t)
    /\ \A i \in DOMAIN s : Fold(s[i]) = Fold(t[i])

\* SELECT COUNT(*) as count FROM blacklist_entries WHERE identifier = ?
CountByIdentifier(rows, identifier) ==
    Cardinality({r \in rows : CollationEq(r.identifier, identifier)})

\* BlacklistRepository.exists: (rows[0] as any).count > 0
existsMutNeverDuplicate(rows, identifier) == CountByIdentifier(rows, identifier) > 1
exists(rows, identifier) == CountByIdentifier(rows, identifier) > 0

\* The row an INSERT of the sanitized entry adds under the given id
InsertedRow(id, entry) ==
    [id |-> id,
     identifier |-> entry.identifier,
     first_name |-> entry.firstName,
     last_name |-> entry.lastName,
     created_by |-> entry.createdBy]

SvcActive == {q \in Callers : svcPc[q] \in {"exists", "insert"}}

SvcInit ==
    /\ store = {}
    /\ nextId = 1
    /\ svcPc = [p \in Callers |-> "idle"]
    /\ svcArg = [p \in Callers |-> NoInput]
    /\ svcOut = [p \in Callers |-> Pending]
    /\ svcOverlap = [p \in Callers |-> {}]
    /\ svcSnap = [p \in Callers |-> {}]
    /\ svcEnd = [p \in Callers |-> {}]
    /\ svcHad = [p \in Callers |-> FALSE]
    /\ svcCalled = [p \in Callers |-> {}]
    /\ svcStarted = 0

\* addEntry up to its first await: sanitize, validate, checkDuplicate -> exists
addEntry(p, input) ==
    LET sanitizedEntry == sanitizeBlacklistEntryInput(input)
        validation == validateBlacklistEntry(sanitizedEntry)
    IN /\ svcStarted' = svcStarted + 1
       /\ svcArg' = [svcArg EXCEPT ![p] = input]
       /\ svcSnap' = [svcSnap EXCEPT ![p] = store]
       /\ svcEnd' = [svcEnd EXCEPT ![p] = store]
       /\ svcHad' = [svcHad EXCEPT ![p] =
                       CountByIdentifier(store, sanitizedEntry.identifier) > 0]
       /\ svcOverlap' = [q \in Callers |->
                           IF q = p THEN SvcActive \ {p}
                           ELSE IF q \in SvcActive THEN svcOverlap[q] \cup {p}
                                ELSE svcOverlap[q]]
       /\ IF validation.isValid
          THEN /\ svcPc' = [svcPc EXCEPT ![p] = "exists"]
               /\ svcOut' = [svcOut EXCEPT ![p] = Pending]
               /\ svcCalled' = [svcCalled EXCEPT ![p] = {"exists"}]
          ELSE /\ svcPc' = [svcPc EXCEPT ![p] = "done"]
               /\ svcOut' = [svcOut EXCEPT ![p] = Rejected(MsgValidation)]
               /\ svcCalled' = [svcCalled EXCEPT ![p] = {}]
       /\ UNCHANGED <<store, nextId>>
       /\ UNCHANGED <<opVars, connVars, ctorVars, fnVars>>

\* A caller calls addEntry
AddEntryStart(p, input) ==
    /\ svcPc[p] \in {"idle", "done"}
    /\ svcStarted < MaxAddCalls
    /\ addEntry(p, input)
    /\ UNCHANGED cmdVars

\* The existence query answers; a duplicate rejects, otherwise create is called
ExistsQueryOk(p) ==
    LET sanitizedEntry == sanitizeBlacklistEntryInput(svcArg[p])
        isDuplicate == exists(store, Trim(sanitizedEntry.identifier))
    IN /\ svcPc[p] = "exists"
       /\ IF isDuplicate
          THEN /\ svcPc' = [svcPc EXCEPT ![p] = "done"]
               /\ svcOut' = [svcOut EXCEPT ![p] =
                               IF IncludesDuplicateEntry(MsgDuplicate)
                               THEN Rejected(MsgDuplicate)
                               ELSE Rejected(MsgVerifyFailed)]
               /\ svcEnd' = [svcEnd EXCEPT ![p] = store]
               /\ UNCHANGED svcCalled
          ELSE /\ svcPc' = [svcPc EXCEPT ![p] = "insert"]
               /\ svcCalled' = [svcCalled EXCEPT ![p] = @ \cup {"create"}]
               /\ UNCHANGED <<svcOut, svcEnd>>
       /\ UNCHANGED <<store, nextId, svcArg, svcOverlap, svcSnap, svcHad, svcStarted>>
       /\ UNCHANGED <<opVars, connVars, ctorVars, fnVars, cmdVars>>

\* The existence query rejects: checkDuplicate rethrows, addEntry wraps
ExistsQueryFail(p) ==
    /\ svcPc[p] = "exists"
    /\ svcPc' = [svcPc EXCEPT ![p] = "done"]
    /\ svcOut' = [svcOut EXCEPT ![p] =
                    IF IncludesDuplicateEntry(MsgCheckFailed)
                    THEN Rejected(MsgCheckFailed)
                    ELSE Rejected(MsgVerifyFailed)]
    /\ svcCalled' = [svcCalled EXCEPT ![p] = @ \cup {"exists:error"}]
    /\ svcEnd' = [svcEnd EXCEPT ![p] = store]
    /\ UNCHANGED <<store, nextId, svcArg, svcOverlap, svcSnap, svcHad, svcStarted>>
    /\ UNCHANGED <<opVars, connVars, ctorVars, fnVars, cmdVars>>

\* BlacklistRepository.create: the INSERT runs and returns insertId
InsertOk(p) ==
    LET sanitizedEntry ==
            sanitizeBlacklistEntryInput(sanitizeBlacklistEntryInput(svcArg[p]))
    IN /\ svcPc[p] = "insert"
       /\ store' = store \cup {InsertedRow(nextId, sanitizedEntry)}
       /\ nextId' = nextId + 1
       /\ svcPc' = [svcPc EXCEPT ![p] = "done"]
       /\ svcOut' = [svcOut EXCEPT ![p] = Resolved(nextId)]
       /\ svcEnd' = [svcEnd EXCEPT ![p] = store']
       /\ UNCHANGED <<svcArg, svcOverlap, svcSnap, svcHad, svcCalled, svcStarted>>
       /\ UNCHANGED <<opVars, connVars, ctorVars, fnVars, cmdVars>>

\* The INSERT rejects: create wraps, addEntry wraps again
InsertFail(p) ==
    /\ svcPc[p] = "insert"
    /\ svcPc' = [svcPc EXCEPT ![p] = "done"]
    /\ svcOut' = [svcOut EXCEPT ![p] = Rejected(MsgAddFailed)]
    /\ svcCalled' = [svcCalled EXCEPT ![p] = @ \cup {"create:error"}]
    /\ svcEnd' = [svcEnd EXCEPT ![p] = store]
    /\ UNCHANGED <<store, nextId, svcArg, svcOverlap, svcSnap, svcHad, svcStarted>>
    /\ UNCHANGED <<opVars, connVars, ctorVars, fnVars, cmdVars>>

SvcNext ==
    \/ \E p \in Callers, input \in EntryInputs : AddEntryStart(p, input)
    \/ \E p \in Callers : ExistsQueryOk(p)
    \/ \E p \in Callers : ExistsQueryFail(p)
    \/ \E p \in Callers : InsertOk(p)
    \/ \E p \in Callers : InsertFail(p)


(***************************************************************************)
(* Search criteria.                                                        *)
(***************************************************************************)
Criteria(identifier, firstName, lastName) ==
    [identifier |-> identifier, firstName |-> firstName, lastName |-> lastName]

NoCriteria == Criteria(None, None, None)

\* `x` as a condition, x an optional string: present and not ''
Truthy(opt) == opt # None /\ opt[1] # <<>>

sanitizeSearchCriteriaMutIdentity(criteria) == criteria
sanitizeSearchCriteria(criteria) ==
    [identifier |-> IF Usable(criteria.identifier)
                    THEN Some(Trim(criteria.identifier[1])) ELSE None,
     firstName  |-> IF Usable(criteria.firstName)
                    THEN Some(Trim(criteria.firstName[1])) ELSE None,
     lastName   |-> IF Usable(criteria.lastName)
                    THEN Some(Trim(criteria.lastName[1])) ELSE None]

atLeastOneErrors(criteria) ==
    IF ~Truthy(criteria.identifier) /\ ~Truthy(criteria.firstName)
       /\ ~Truthy(criteria.lastName)
    THEN <<"At least one search criterion must be provided (identifier, firstName, or lastName)">>
    ELSE <<>>

\* The errors of one field of the criteria
criterionErrors(opt, name, maxLen, maxLenText) ==
    IF opt = None THEN <<>>
    ELSE IF Len(Trim(opt[1])) = 0 THEN <<name \o " cannot be empty when provided">>
    ELSE IF Len(opt[1]) > maxLen
         THEN <<name \o " cannot exceed " \o maxLenText \o " characters">>
         ELSE <<>>

searchErrors(criteria) ==
    criterionErrors(criteria.identifier, "Identifier", MaxIdentifierLen, "255")
        \o criterionErrors(criteria.firstName, "FirstName", MaxNameLen, "100")
        \o criterionErrors(criteria.lastName, "LastName", MaxNameLen, "100")

validateSearchCriteriaMutNoneRequired(criteria) ==
    [isValid |-> Len(searchErrors(criteria)) = 0, errors |-> searchErrors(criteria)]
validateSearchCriteria(criteria) ==
    LET errors == atLeastOneErrors(criteria) \o searchErrors(criteria)
    IN [isValid |-> Len(errors) = 0, errors |-> errors]

\* The criteria the callers pass to searchEntries
SearchInputs ==
    {NoCriteria,
     Criteria(Some(<<>>), Some(<<" ">>), None),
     Criteria(Some(<<" ", " ">>), None, Some(<<>>)),
     Criteria(Some(<<"a", " ">>), None, None),
     Criteria(None, Some(<<"j">>), Some(<<" ">>))}

(***************************************************************************)
(* BlacklistRepository on the table: findById, deleteById, search.         *)
(***************************************************************************)
\* mapRowToEntry: a NULL or empty name column gives no field (created_at is
\* not modelled)
mapRowToEntryMutKeepNull(row) ==
    [id |-> row.id, identifier |-> row.identifier, createdBy |-> row.created_by,
     firstName |-> Some(<<>>), lastName |-> Some(<<>>)]
mapRowToEntry(row) ==
    [id |-> row.id,
     identifier |-> row.identifier,
     createdBy |-> row.created_by,
     firstName |-> IF Truthy(row.first_name) THEN row.first_name ELSE None,
     lastName |-> IF Truthy(row.last_name) THEN row.last_name ELSE None]

\* SELECT ... WHERE id = ?: the rows
RowsById(rows, id) == {r \in rows : r.id = id}

\* findById: the entry of the first row, or null
findByIdMutAlwaysFound(rows, id) ==
    Some([id |-> id, identifier |-> <<>>, createdBy |-> <<>>,
          firstName |-> None, lastName |-> None])
findById(rows, id) ==
    IF RowsById(rows, id) # {}
    THEN Some(mapRowToEntry(CHOOSE r \in RowsById(rows, id) : TRUE))
    ELSE None

\* DELETE FROM blacklist_entries WHERE id = ?: the table afterwards
DeleteByIdMutKeepRows(rows, id) == rows
DeleteById(rows, id) == rows \ RowsById(rows, id)

\* sub is a substring of s
Contains(s, sub) ==
    \E i \in 0..(Len(s) - Len(sub)) : SubSeq(s, i + 1, i + Len(sub)) = sub

(***************************************************************************)
(* The statements the repository sends and what MySQL does with them: in a *)
(* LIKE pattern "%" stands for any string and "_" for any one character.   *)
(*   where  : the predicates after WHERE 1=1 (or WHERE), one "?" each      *)
(*   params : the values bound to the "?" in order                         *)
(***************************************************************************)
\* s LIKE pattern
RECURSIVE Like(_, _)
Like(s, pattern) ==
    IF pattern = <<>> THEN s = <<>>
    ELSE IF Head(pattern) = "%"
         THEN Like(s, Tail(pattern)) \/ (s # <<>> /\ Like(Tail(s), pattern))
         ELSE /\ s # <<>>
              /\ Head(pattern) = "_" \/ Fold(Head(s)) = Fold(Head(pattern))
              /\ Like(Tail(s), Tail(pattern))

\* `%${value}%`
Wrap(value) == <<"%">> \o value \o <<"%">>

Clause(col, cmp) == [col |-> col, cmp |-> cmp]
Query(where, params) == [where |-> where, params |-> params]
NoQuery == Query(<<>>, <<>>)

\* The column of a row as an optional string (NULL: None)
Column(row, col) ==
    CASE col = "identifier" -> Some(row.identifier)
      [] col = "first_name" -> row.first_name
      [] col = "last_name" -> row.last_name

\* One predicate of the WHERE clause on a row; NULL satisfies none
Holds(row, clause, param) ==
    LET v == Column(row, clause.col)
    IN /\ v # None
       /\ IF clause.cmp = "=" THEN CollationEq(v[1], param) ELSE Like(v[1], param)

\* The rows a SELECT with the query's WHERE clause returns
Select(rows, q) ==
    {r \in rows : \A i \in DOMAIN q.where : Holds(r, q.where[i], q.params[i])}

\* The statement search builds from the sanitized criteria
searchQueryMutNamesSwapped(criteria) ==
    LET q0 == NoQuery
        q1 == IF Truthy(criteria.identifier)
              THEN Query(Append(q0.where, Clause("identifier", "=")),
                         Append(q0.params, criteria.identifier[1]))
              ELSE q0
        q2 == IF Truthy(criteria.firstName)
              THEN Query(Append(q1.where, Clause("first_name", "LIKE")), q1.params)
              ELSE q1
        q3 == IF Truthy(criteria.lastName)
              THEN Query(Append(q2.where, Clause("last_name", "LIKE")),
                         Append(q2.params, Wrap(criteria.lastName[1])))
              ELSE q2
    IN IF Truthy(criteria.firstName)
       THEN Query(q3.where, Append(q3.params, Wrap(criteria.firstName[1])))
       ELSE q3
searchQuery(criteria) ==
    LET q0 == NoQuery
        q1 == IF Truthy(criteria.identifier)
              THEN Query(Append(q0.where, Clause("identifier", "=")),
                         Append(q0.params, criteria.identifier[1]))
              ELSE q0
        q2 == IF Truthy(criteria.firstName)
              THEN Query(Append(q1.where, Clause("first_name", "LIKE")),
                         Append(q1.params, Wrap(criteria.firstName[1])))
              ELSE q1
    IN IF Truthy(criteria.lastName)
       THEN Query(Append(q2.where, Clause("last_name", "LIKE")),
                  Append(q2.params, Wrap(criteria.lastName[1])))
       ELSE q2

(***************************************************************************)
(* BlacklistService: getById, removeEntry, searchEntries.                  *)
(*   opPc, opName, opId, opCriteria, opOut : each caller's call in flight  *)
(*   opSnap, opEnd, opCalled : history of the call: the store when it      *)
(*     started and when it settled, the repository methods it invoked and  *)
(*     those that threw                                                    *)
(*   removed : history: the ids for which a removeEntry call has returned  *)
(*     true                                                                *)
(*   opSaw : history of the call: removed when it started                  *)
(*   opStarted : the number of calls issued                                *)
(*   opQuery : the statement with a WHERE clause on the identifier and the *)
(*     names that the call has built                                       *)
(***************************************************************************)
MaxStoreCalls == 3
MaxId == 2
Ids == 0..MaxId

MsgInvalidId == "Invalid ID: ID must be a positive number"
MsgGetFailed == "Failed to get entry by ID"
MsgRemoveFailed == "Failed to remove blacklist entry"
MsgSearchValidation == "Search validation failed"
MsgSearchFailed == "Failed to search blacklist entries"

OpPending == [kind |-> "pending"]
OpReturned(val) == [kind |-> "returned", val |-> val]
OpThrown(msg) == [kind |-> "thrown", msg |-> msg]

OpInit ==
    /\ opPc = [p \in Callers |-> "idle"]
    /\ opName = [p \in Callers |-> "none"]
    /\ opId = [p \in Callers |-> 0]
    /\ opCriteria = [p \in Callers |-> NoCriteria]
    /\ opOut = [p \in Callers |-> OpPending]
    /\ opSnap = [p \in Callers |-> {}]
    /\ opEnd = [p \in Callers |-> {}]
    /\ opCalled = [p \in Callers |-> {}]
    /\ opSaw = [p \in Callers |-> {}]
    /\ opStarted = 0
    /\ removed = {}
    /\ opQuery = [p \in Callers |-> NoQuery]

\* A call is issued: what every operation records
OpStart(p, name, id, criteria) ==
    /\ opStarted' = opStarted + 1
    /\ opName' = [opName EXCEPT ![p] = name]
    /\ opId' = [opId EXCEPT ![p] = id]
    /\ opCriteria' = [opCriteria EXCEPT ![p] = criteria]
    /\ opSnap' = [opSnap EXCEPT ![p] = store]
    /\ opEnd' = [opEnd EXCEPT ![p] = store]
    /\ opSaw' = [opSaw EXCEPT ![p] = removed]
    /\ UNCHANGED <<store, removed, svcVars, connVars, ctorVars, fnVars>>

\* The call goes on to await the repository method m
OpAwait(p, pc, m) ==
    /\ opPc' = [opPc EXCEPT ![p] = pc]
    /\ opOut' = [opOut EXCEPT ![p] = OpPending]
    /\ opCalled' = [opCalled EXCEPT ![p] = {m}]

\* The call settles with out, the table being rows from now on
OpSettle(p, out, rows, called) ==
    /\ opPc' = [opPc EXCEPT ![p] = "done"]
    /\ opOut' = [opOut EXCEPT ![p] = out]
    /\ opEnd' = [opEnd EXCEPT ![p] = rows]
    /\ opCalled' = [opCalled EXCEPT ![p] = called]
    /\ store' = rows
    /\ UNCHANGED <<opName, opId, opCriteria, opSnap, opSaw, opStarted, opQuery>>
    /\ UNCHANGED <<nextId, svcPc, svcArg, svcOut, svcOverlap, svcSnap, svcEnd,
                   svcHad, svcCalled, svcStarted, connVars, ctorVars, fnVars, cmdVars>>

\* `!id || typeof id !== 'number' || id <= 0`
InvalidId(id) == id = 0 \/ id <= 0

\* getById up to its first await
getById(p, id) ==
    /\ OpStart(p, "getById", id, NoCriteria)
    /\ opQuery' = [opQuery EXCEPT ![p] = NoQuery]
    /\ IF InvalidId(id)
       THEN /\ opPc' = [opPc EXCEPT ![p] = "done"]
            /\ opOut' = [opOut EXCEPT ![p] = OpThrown(MsgInvalidId)]
            /\ opCalled' = [opCalled EXCEPT ![p] = {}]
       ELSE OpAwait(p, "get", "findById")

\* A caller calls getById
GetByIdStart(p, id) ==
    /\ opPc[p] \in {"idle", "done"}
    /\ svcStarted + opStarted < MaxStoreCalls
    /\ getById(p, id)
    /\ UNCHANGED cmdVars

\* getById: the SELECT answers
GetByIdQueryOkMutDelete(p) ==
    /\ opPc[p] = "get"
    /\ OpSettle(p, OpReturned(findById(store, opId[p])), DeleteById(store, opId[p]),
                opCalled[p])
    /\ UNCHANGED removed
GetByIdQueryOk(p) ==
    /\ opPc[p] = "get"
    /\ OpSettle(p, OpReturned(findById(store, opId[p])), store, opCalled[p])
    /\ UNCHANGED removed

\* getById: the SELECT rejects; findById wraps, getById wraps again
GetByIdQueryFail(p) ==
    /\ opPc[p] = "get"
    /\ OpSettle(p, OpThrown(MsgGetFailed), store, opCalled[p] \cup {"findById:error"})
    /\ UNCHANGED removed

\* removeEntry up to its first await
removeEntry(p, id) ==
    /\ OpStart(p, "removeEntry", id, NoCriteria)
    /\ opQuery' = [opQuery EXCEPT ![p] = NoQuery]
    /\ IF InvalidId(id)
       THEN /\ opPc' = [opPc EXCEPT ![p] = "done"]
            /\ opOut' = [opOut EXCEPT ![p] = OpThrown(MsgInvalidId)]
            /\ opCalled' = [opCalled EXCEPT ![p] = {}]
       ELSE OpAwait(p, "rm_find", "findById")

\* A caller calls removeEntry
RemoveEntryStart(p, id) ==
    /\ opPc[p] \in {"idle", "done"}
    /\ svcStarted + opStarted < MaxStoreCalls
    /\ removeEntry(p, id)
    /\ UNCHANGED cmdVars

\* removeEntry: the SELECT answers; no entry returns false, otherwise
\* deleteById is called
RemoveFindOk(p) ==
    LET existingEntry == findById(store, opId[p])
    IN /\ opPc[p] = "rm_find"
       /\ IF existingEntry = None
          THEN OpSettle(p, OpReturned(FALSE), store, opCalled[p])
          ELSE /\ opPc' = [opPc EXCEPT ![p] = "rm_delete"]
               /\ opCalled' = [opCalled EXCEPT ![p] = @ \cup {"deleteById"}]
               /\ UNCHANGED <<opName, opId, opCriteria, opOut, opSnap, opEnd,
                              opSaw, opStarted, opQuery, store, svcVars,
                              connVars, ctorVars, fnVars, cmdVars>>
       /\ UNCHANGED removed

\* removeEntry: the SELECT rejects; findById wraps, removeEntry wraps again
RemoveFindFail(p) ==
    /\ opPc[p] = "rm_find"
    /\ OpSettle(p, OpThrown(MsgRemoveFailed), store, opCalled[p] \cup {"findById:error"})
    /\ UNCHANGED removed

\* removeEntry: the DELETE runs; deleted = affectedRows > 0
RemoveDeleteOkMutAlwaysTrue(p) ==
    /\ opPc[p] = "rm_delete"
    /\ OpSettle(p, OpReturned(TRUE), DeleteById(store, opId[p]), opCalled[p])
    /\ removed' = removed \cup {opId[p]}
RemoveDeleteOk(p) ==
    LET rows == DeleteById(store, opId[p])
        deleted == Cardinality(store) - Cardinality(rows) > 0
    IN /\ opPc[p] = "rm_delete"
       /\ OpSettle(p, OpReturned(deleted), rows, opCalled[p])
       /\ removed' = IF deleted THEN removed \cup {opId[p]} ELSE removed

\* removeEntry: the DELETE rejects; deleteById wraps, removeEntry wraps again
RemoveDeleteFail(p) ==
    /\ opPc[p] = "rm_delete"
    /\ OpSettle(p, OpThrown(MsgRemoveFailed), store, opCalled[p] \cup {"deleteById:error"})
    /\ UNCHANGED removed

\* searchEntries up to its first await: sanitize, validate, repository.search
SearchEntriesStart(p, criteria) ==
    LET sanitizedCriteria == sanitizeSearchCriteria(criteria)
        validation == validateSearchCriteria(sanitizedCriteria)
    IN /\ opPc[p] \in {"idle", "done"}
       /\ svcStarted + opStarted < MaxStoreCalls
       /\ OpStart(p, "searchEntries", 0, criteria)
       /\ UNCHANGED cmdVars
       /\ IF validation.isValid
          THEN /\ OpAwait(p, "search", "search")
               /\ opQuery' = [opQuery EXCEPT ![p] =
                                searchQuery(sanitizeSearchCriteria(sanitizedCriteria))]
          ELSE /\ opPc' = [opPc EXCEPT ![p] = "done"]
               /\ opOut' = [opOut EXCEPT ![p] = OpThrown(MsgSearchValidation)]
               /\ opCalled' = [opCalled EXCEPT ![p] = {}]
               /\ opQuery' = [opQuery EXCEPT ![p] = NoQuery]

\* searchEntries: the SELECT answers with the matching rows
SearchQueryOk(p) ==
    LET results == {mapRowToEntry(r) : r \in Select(store, opQuery[p])}
    IN /\ opPc[p] = "search"
       /\ OpSettle(p, OpReturned(results), store, opCalled[p])
       /\ UNCHANGED removed

\* searchEntries: the SELECT rejects; search wraps, searchEntries wraps again
SearchQueryFail(p) ==
    /\ opPc[p] = "search"
    /\ OpSettle(p, OpThrown(MsgSearchFailed), store, opCalled[p] \cup {"search:error"})
    /\ UNCHANGED removed

OpNext ==
    \/ \E p \in Callers, id \in Ids : GetByIdStart(p, id)
    \/ \E p \in Callers : GetByIdQueryOk(p)
    \/ \E p \in Callers : GetByIdQueryFail(p)
    \/ \E p \in Callers, id \in Ids : RemoveEntryStart(p, id)
    \/ \E p \in Callers : RemoveFindOk(p)
    \/ \E p \in Callers : RemoveFindFail(p)
    \/ \E p \in Callers : RemoveDeleteOk(p)
    \/ \E p \in Callers : RemoveDeleteFail(p)
    \/ \E p \in Callers, criteria \in SearchInputs : SearchEntriesStart(p, criteria)
    \/ \E p \in Callers : SearchQueryOk(p)
    \/ \E p \in Callers : SearchQueryFail(p)

\* addEntry is issued within the number of calls of the run
StoreAddEntryStart(p, input) ==
    /\ svcStarted + opStarted < MaxStoreCalls
    /\ AddEntryStart(p, input)

StoreNext ==
    \/ \E p \in Callers, input \in EntryInputs : StoreAddEntryStart(p, input)
    \/ \E p \in Callers : ExistsQueryOk(p)
    \/ \E p \in Callers : ExistsQueryFail(p)
    \/ \E p \in Callers : InsertOk(p)
    \/ \E p \in Callers : InsertFail(p)
    \/ OpNext


(***************************************************************************)
(* BlacklistRepository called directly, on a table that holds rows.        *)
(* The variables of the service calls hold the repository call: opName is  *)
(* the method, opCriteria its arguments (for findByName the two names, for *)
(* findByIdentifier and exists the identifier, for create the entry).      *)
(***************************************************************************)
MaxRepoCalls == 1

Row(id, identifier, first_name, last_name) ==
    [id |-> id, identifier |-> identifier, first_name |-> first_name,
     last_name |-> last_name, created_by |-> <<"u">>]

\* Rows that create has written
RepoRows ==
    {Row(1, <<"a">>, Some(<<"j">>), None),
     Row(2, <<"b">>, Some(<<"J", "d">>), Some(<<"d">>)),
     Row(3, <<"a">>, None, Some(<<"j", "_">>))}

\* Optional names and identifiers the callers pass
NameArgs == {None, Some(<<>>), Some(<<" ">>), Some(<<"j">>), Some(<<"_">>)}
LastNameArgs == {None, Some(<<>>), Some(<<"d", " ">>)}
IdentifierArgs == {None, Some(<<>>), Some(<<" ">>), Some(<<"a">>), Some(<<"A", " ">>)}

MsgRepoInvalidEntry == "Invalid blacklist entry"
MsgRepoCreateFailed == "Failed to create blacklist entry"
MsgRepoIdentifierRequired == "Identifier is required and must be a non-empty string"
MsgRepoSearchFailed == "Failed to search blacklist entries"
MsgRepoNameRequired == "At least one name parameter (firstName or lastName) must be provided"
MsgRepoByNameFailed == "Failed to search blacklist entries by name"
MsgRepoInvalidCriteria == "Invalid search criteria"
MsgRepoIdRequired == "ID must be a positive number"
MsgRepoFindFailed == "Failed to find blacklist entry"
MsgRepoDeleteFailed == "Failed to delete blacklist entry"
MsgRepoExistsFailed == "Failed to check blacklist entry existence"

\* The error a method throws when its query rejects
RepoFailure(name) ==
    CASE name = "create" -> MsgRepoCreateFailed
      [] name = "findByIdentifier" -> MsgRepoSearchFailed
      [] name = "findByName" -> MsgRepoByNameFailed
      [] name = "search" -> MsgRepoSearchFailed
      [] name = "findById" -> MsgRepoFindFailed
      [] name = "deleteById" -> MsgRepoDeleteFailed
      [] name = "exists" -> MsgRepoExistsFailed

\* A table with rows, no call yet
RepoInit ==
    /\ store \in SUBSET RepoRows
    /\ nextId = Cardinality(RepoRows) + 1
    /\ svcPc = [p \in Callers |-> "idle"]
    /\ svcArg = [p \in Callers |-> NoInput]
    /\ svcOut = [p \in Callers |-> Pending]
    /\ svcOverlap = [p \in Callers |-> {}]
    /\ svcSnap = [p \in Callers |-> {}]
    /\ svcEnd = [p \in Callers |-> {}]
    /\ svcHad = [p \in Callers |-> FALSE]
    /\ svcCalled = [p \in Callers |-> {}]
    /\ svcStarted = 0

\* A repository method is called: it throws msg at once (msg # ""), or sends
\* the statement q and awaits the answer
RepoStart(p, name, id, args, msg, q) ==
    /\ opStarted < MaxRepoCalls
    /\ opStarted' = opStarted + 1
    /\ opName' = [opName EXCEPT ![p] = name]
    /\ opId' = [opId EXCEPT ![p] = id]
    /\ opCriteria' = [opCriteria EXCEPT ![p] = args]
    /\ opSnap' = [opSnap EXCEPT ![p] = store]
    /\ opEnd' = [opEnd EXCEPT ![p] = store]
    /\ opSaw' = [opSaw EXCEPT ![p] = removed]
    /\ opPc' = [opPc EXCEPT ![p] = IF msg = "" THEN "repo" ELSE "done"]
    /\ opOut' = [opOut EXCEPT ![p] = IF msg = "" THEN OpPending ELSE OpThrown(msg)]
    /\ opCalled' = [opCalled EXCEPT ![p] = IF msg = "" THEN {"query"} ELSE {}]
    /\ opQuery' = [opQuery EXCEPT ![p] = IF msg = "" THEN q ELSE NoQuery]
    /\ UNCHANGED <<store, removed, svcVars, connVars, ctorVars, fnVars, cmdVars>>

\* `!identifier || ... || identifier.trim().length === 0`
InvalidIdentifier(opt) == ~Truthy(opt) \/ Len(Trim(opt[1])) = 0

\* The statement findByName builds
findByNameQueryMutRequireUsable(firstName, lastName) ==
    Query(<<Clause("first_name", "LIKE")>>,
          <<Wrap(IF firstName = None THEN <<>> ELSE Trim(firstName[1]))>>)
findByNameQuery(firstName, lastName) ==
    LET q0 == NoQuery
        q1 == IF Truthy(firstName) /\ Trim(firstName[1]) # <<>>
              THEN Query(Append(q0.where, Clause("first_name", "LIKE")),
                         Append(q0.params, Wrap(Trim(firstName[1]))))
              ELSE q0
    IN IF Truthy(lastName) /\ Trim(lastName[1]) # <<>>
       THEN Query(Append(q1.where, Clause("last_name", "LIKE")),
                  Append(q1.params, Wrap(Trim(lastName[1]))))
       ELSE q1

\* search(criteria)
RepoSearchStart(p, criteria) ==
    LET sanitizedCriteria == sanitizeSearchCriteria(criteria)
        validation == validateSearchCriteria(sanitizedCriteria)
    IN /\ opPc[p] \in {"idle", "done"}
       /\ RepoStart(p, "search", 0, criteria,
                    IF validation.isValid THEN "" ELSE MsgRepoInvalidCriteria,
                    searchQuery(sanitizedCriteria))

\* findByName(firstName, lastName)
RepoFindByNameStart(p, firstName, lastName) ==
    /\ opPc[p] \in {"idle", "done"}
    /\ RepoStart(p, "findByName", 0, Criteria(None, firstName, lastName),
                 IF ~Truthy(firstName) /\ ~Truthy(lastName) THEN MsgRepoNameRequired ELSE "",
                 findByNameQuery(firstName, lastName))

\* findByIdentifier(identifier)
RepoFindByIdentifierStart(p, identifier) ==
    /\ opPc[p] \in {"idle", "done"}
    /\ RepoStart(p, "findByIdentifier", 0, Criteria(identifier, None, None),
                 IF InvalidIdentifier(identifier) THEN MsgRepoIdentifierRequired ELSE "",
                 IF identifier = None THEN NoQuery
                 ELSE Query(<<Clause("identifier", "=")>>, <<Trim(identifier[1])>>))

\* exists(identifier)
RepoExistsStart(p, identifier) ==
    /\ opPc[p] \in {"idle", "done"}
    /\ RepoStart(p, "exists", 0, Criteria(identifier, None, None),
                 IF InvalidIdentifier(identifier) THEN MsgRepoIdentifierRequired ELSE "",
                 IF identifier = None THEN NoQuery
                 ELSE Query(<<Clause("identifier", "=")>>, <<Trim(identifier[1])>>))

\* findById(id)
RepoFindByIdStart(p, id) ==
    /\ opPc[p] \in {"idle", "done"}
    /\ RepoStart(p, "findById", id, NoCriteria,
                 IF InvalidId(id) THEN MsgRepoIdRequired ELSE "", NoQuery)

\* deleteById(id)
RepoDeleteByIdStart(p, id) ==
    /\ opPc[p] \in {"idle", "done"}
    /\ RepoStart(p, "deleteById", id, NoCriteria,
                 IF InvalidId(id) THEN MsgRepoIdRequired ELSE "", NoQuery)

\* create(entry)
RepoCreateStart(p, input) ==
    LET sanitizedEntry == sanitizeBlacklistEntryInput(input)
        validation == validateBlacklistEntry(sanitizedEntry)
    IN /\ opPc[p] \in {"idle", "done"}
       /\ RepoStart(p, "create", 0, input,
                    IF validation.isValid THEN "" ELSE MsgRepoInvalidEntry, NoQuery)

\* What the method returns when its statement has run on rows
RepoResultMutResolveAnyway(name, rows, id, q) ==
    CASE name \in {"search", "findByName", "findByIdentifier"} -> {}
      [] name = "exists" -> FALSE
      [] name = "findById" -> None
      [] name = "deleteById" -> FALSE
RepoResultMutStatementSucceeded(name, rows, id, q) ==
    CASE name \in {"search", "findByName", "findByIdentifier"} ->
             {mapRowToEntry(r) : r \in Select(rows, q)}
      [] name = "exists" -> Cardinality(Select(rows, q)) > 0
      [] name = "findById" -> findById(rows, id)
      [] name = "deleteById" -> TRUE
RepoResult(name, rows, id, q) ==
    CASE name \in {"search", "findByName", "findByIdentifier"} ->
             {mapRowToEntry(r) : r \in Select(rows, q)}
      [] name = "exists" -> Cardinality(Select(rows, q)) > 0
      [] name = "findById" -> findById(rows, id)
      [] name = "deleteById" -> Cardinality(rows) - Cardinality(DeleteById(rows, id)) > 0

\* The statement of a method that reads, or of deleteById, runs and answers
RepoQueryOk(p) ==
    /\ opPc[p] = "repo"
    /\ opName[p] # "create"
    /\ OpSettle(p, OpReturned(RepoResult(opName[p], store, opId[p], opQuery[p])),
                IF opName[p] = "deleteById" THEN DeleteById(store, opId[p]) ELSE store,
                opCalled[p])
    /\ removed' = IF opName[p] = "deleteById" /\ RowsById(store, opId[p]) # {}
                  THEN removed \cup {opId[p]} ELSE removed

\* The INSERT of create runs; create returns insertId
RepoInsertOk(p) ==
    LET sanitizedEntry == sanitizeBlacklistEntryInput(opCriteria[p])
    IN /\ opPc[p] = "repo"
       /\ opName[p] = "create"
       /\ store' = store \cup {InsertedRow(nextId, sanitizedEntry)}
       /\ nextId' = nextId + 1
       /\ opPc' = [opPc EXCEPT ![p] = "done"]
       /\ opOut' = [opOut EXCEPT ![p] = OpReturned(nextId)]
       /\ opEnd' = [opEnd EXCEPT ![p] = store']
       /\ UNCHANGED <<opName, opId, opCriteria, opSnap, opCalled, opSaw, opStarted,
                      removed, opQuery>>
       /\ UNCHANGED <<svcPc, svcArg, svcOut, svcOverlap, svcSnap, svcEnd, svcHad,
                      svcCalled, svcStarted, connVars, ctorVars, fnVars, cmdVars>>

\* The statement rejects: the method throws its own error
RepoQueryFailMutResolve(p) ==
    /\ opPc[p] = "repo"
    /\ opName[p] # "create"
    /\ OpSettle(p, OpReturned(RepoResultMutResolveAnyway(opName[p], store, opId[p], opQuery[p])),
                store, opCalled[p] \cup {"query:error"})
    /\ UNCHANGED removed
RepoQueryFail(p) ==
    /\ opPc[p] = "repo"
    /\ OpSettle(p, OpThrown(RepoFailure(opName[p])), store,
                opCalled[p] \cup {"query:error"})
    /\ UNCHANGED removed

RepoNext ==
    \/ \E p \in Callers, identifier \in IdentifierArgs, firstName \in NameArgs,
          lastName \in LastNameArgs :
            RepoSearchStart(p, Criteria(identifier, firstName, lastName))
    \/ \E p \in Callers, firstName \in NameArgs, lastName \in NameArgs :
            RepoFindByNameStart(p, firstName, lastName)
    \/ \E p \in Callers, identifier \in IdentifierArgs : RepoFindByIdentifierStart(p, identifier)
    \/ \E p \in Callers, identifier \in IdentifierArgs : RepoExistsStart(p, identifier)
    \/ \E p \in Callers, id \in Ids : RepoFindByIdStart(p, id)
    \/ \E p \in Callers, id \in Ids : RepoDeleteByIdStart(p, id)
    \/ \E p \in Callers, input \in EntryInputs : RepoCreateStart(p, input)
    \/ \E p \in Callers : RepoQueryOk(p)
    \/ \E p \in Callers : RepoInsertOk(p)
    \/ \E p \in Callers : RepoQueryFail(p)


(***************************************************************************)
(* DatabaseConnection: the shared pool manager.                            *)
(*                                                                         *)
(* Every caller runs one top-level call at a time as a stack of async      *)
(* frames.  A step is what Node runs between two I/O events: the           *)
(* completion of one awaited driver call or timer, then the continuation   *)
(* of every frame that this resumes (promise reactions run to completion   *)
(* before the next I/O event is handled), each up to its next await of a   *)
(* driver call or timer.  A callee's synchronous prefix runs in the step   *)
(* of the caller that invokes it.                                          *)
(***************************************************************************)
MaxCalls == 2
MaxSeqCalls == 3
MaxPools == 2

maxReconnectAttempts == 5
reconnectDelay == 1000
connectionLimit == 10

\* Messages of the errors the driver raises, by the pattern they match
ErrKinds == {"ECONNREFUSED", "ACCESS_DENIED"}

NoErr == [src |-> "none", kind |-> "none"]
Err(src, kind) == [src |-> src, kind |-> kind]

\* ErrorHandler.categorizeError(...).retryable
categorizeError(kind) ==
    CASE kind = "ECONNREFUSED" -> TRUE
      [] kind = "ACCESS_DENIED" -> FALSE
      [] OTHER -> TRUE

\* ErrorHandler.handleDatabaseError(...).shouldRetry
shouldRetry(err) == categorizeError(err.kind)

(***************************************************************************)
(* State.                                                                  *)
(*   pool : this.pool, 0 for null, else the index of the pool in pools     *)
(*   reconnectAttempts : this.reconnectAttempts                            *)
(*   pools : every pool createPool returned: how often its end() resolved  *)
(*           and whether a health probe succeeded on it                    *)
(*   stack : per caller, the async frames of its call, outermost first     *)
(*   hist  : per caller, the history of its current call                   *)
(*   calls : the number of top-level calls started; a run is followed for  *)
(*           MaxCalls calls, and for MaxSeqCalls while its calls have run  *)
(*           one after the other                                           *)
(*   established : history: a connect() call has resolved with a pool      *)
(*           installed, and since then no disconnect() has been called and *)
(*           no pool.end() has settled                                     *)
(*   overlapped : history: some call was issued while another was in       *)
(*           flight                                                        *)
(*   createPool : what mysql.createPool(this.config) does: it returns a    *)
(*           pool ("ok") or throws an error of the given kind.  It does no *)
(*           I/O and this.config is fixed by the constructor, so it does   *)
(*           the same on every call                                        *)
(***************************************************************************)
Frame(fn, pc) ==
    [fn |-> fn, pc |-> pc, res |-> "none", err |-> NoErr, conn |-> 0, pool |-> 0]

NoHist ==
    [op |-> "none", startPool |-> 0, startAttempts |-> 0,
     endPool |-> 0, endAttempts |-> 0,
     held |-> <<>>, misreleased |-> FALSE, endCalled |-> FALSE,
     txlog |-> <<>>, glog |-> <<>>, delays |-> <<>>]

NewPool == [ends |-> 0, probed |-> FALSE]

Top(stk) == stk[Len(stk)]
Pop(stk) == SubSeq(stk, 1, Len(stk) - 1)
SetTop(stk, f) == [stk EXCEPT ![Len(stk)] = f]

\* What one synchronous segment of caller p reads and writes
\* (over: the segment asked for more pools than the model has)
Ctx(p) ==
    [stk |-> stack[p], pool |-> pool, attempts |-> reconnectAttempts,
     pools |-> pools, h |-> hist[p], over |-> FALSE, est |-> established]

Idle(p) == stack[p] = <<>>
Done(p) == Len(stack[p]) = 1 /\ stack[p][1].res # "none"
Running(p) == ~Idle(p) /\ ~Done(p)
At(p, fn, pc) ==
    /\ Running(p)
    /\ Top(stack[p]).fn = fn
    /\ Top(stack[p]).pc = pc
Waiting(p, fn, pc) == At(p, fn, pc) /\ Top(stack[p]).res = "none"

\* The awaited promise settles: the frame on top resumes with the result
Resume(c, res, err, conn) ==
    LET f == [Top(c.stk) EXCEPT !.res = res, !.err = err, !.conn = conn]
        c1 == [c EXCEPT !.stk = SetTop(c.stk, f)]
    IN IF Len(c.stk) = 1
       THEN [c1 EXCEPT !.h.endPool = c.pool, !.h.endAttempts = c.attempts,
                       !.est = IF c.h.op = "connect" /\ res = "ok" /\ c.pool # 0
                               THEN TRUE ELSE @]
       ELSE c1

\* The async function on top returns or throws: its caller resumes
Return(c, res, err, conn) == Resume([c EXCEPT !.stk = Pop(c.stk)], res, err, conn)

\* The frame on top awaits again
Await(c, pc) ==
    [c EXCEPT !.stk = SetTop(c.stk, [Top(c.stk) EXCEPT !.pc = pc, !.res = "none"])]

Push(c, f) == [c EXCEPT !.stk = Append(c.stk, f)]

Log(c, ev) == [c EXCEPT !.h.glog = Append(@, ev)]
TxLog(c, ev) == [c EXCEPT !.h.txlog = Append(@, ev)]

\* s without its first occurrence of x
RECURSIVE RemoveOne(_, _)
RemoveOne(s, x) ==
    IF s = <<>> THEN <<>>
    ELSE IF Head(s) = x THEN Tail(s) ELSE <<Head(s)>> \o RemoveOne(Tail(s), x)

IsIn(s, x) == \E i \in DOMAIN s : s[i] = x

\* pool.getConnection() resolved: the call holds one more connection of pool
\* id (a connection is named by its pool; a call never holds two of one pool)
Acquire(c, id) == [c EXCEPT !.h.held = Append(@, id)]

\* connection.release(): the connection goes back to its pool; releasing one
\* that is not held (again, or never acquired) is recorded
Release(c, conn) ==
    IF IsIn(c.h.held, conn)
    THEN [c EXCEPT !.h.held = RemoveOne(@, conn)]
    ELSE [c EXCEPT !.h.misreleased = TRUE]

(***************************************************************************)
(* handleConnectionError up to its first await; the frame on top is the    *)
(* connect() whose catch block calls it.                                   *)
(***************************************************************************)
RECURSIVE Pow(_, _)
Pow(b, e) == IF e = 0 THEN 1 ELSE b * Pow(b, e - 1)

\* The delay of the timer, from the attempt counter just incremented
backoffDelayMutLinear(attempts) == reconnectDelay * attempts
backoffDelay(attempts) == reconnectDelay * Pow(2, attempts - 1)

handleConnectionErrorMutOffByOne(c, err) ==
    IF c.attempts > maxReconnectAttempts
    THEN Return(c, "err", Err("terminal", err.kind), 0)
    ELSE LET k == c.attempts + 1
             timer == [attempt |-> k, delay |-> backoffDelay(k)]
         IN Push([Await(c, "await_hce") EXCEPT !.attempts = k,
                                               !.h.delays = Append(@, timer)],
                 [Frame("handleConnectionError", "delay") EXCEPT !.err = err])
handleConnectionError(c, err) ==
    IF c.attempts >= maxReconnectAttempts
    THEN Return(c, "err", Err("terminal", err.kind), 0)
    ELSE LET k == c.attempts + 1
             timer == [attempt |-> k, delay |-> backoffDelay(k)]
         IN Push([Await(c, "await_hce") EXCEPT !.attempts = k,
                                               !.h.delays = Append(@, timer)],
                 [Frame("handleConnectionError", "delay") EXCEPT !.err = err])

\* The catch block of connect(); the frame on top is that connect()
connectCatchMutAlwaysRetry(c, err) == handleConnectionError(c, err)
connectCatch(c, err) ==
    IF shouldRetry(err)
    THEN handleConnectionError(c, err)
    ELSE Return(c, "err", err, 0)

\* connect() past its pool check: createPool, then testConnection is awaited
connectCreate(c, ch) ==
    IF ch = "ok"
    THEN IF Len(c.pools) >= MaxPools
         THEN [c EXCEPT !.over = TRUE]
         ELSE LET id == Len(c.pools) + 1
              IN Push(Push([c EXCEPT !.pool = id, !.pools = Append(@, NewPool)],
                           Frame("connect", "await_test")),
                      [Frame("testConnection", "acquire") EXCEPT !.pool = id])
    ELSE connectCatch(Push(c, Frame("connect", "catch")), Err("createPool", ch))

\* connect() up to its first await; ch is what createPool does if called
connectMutNoPoolCheck(c, ch) == connectCreate(c, ch)
connect(c, ch) ==
    IF c.pool # 0
    THEN Resume(c, "ok", NoErr, 0)
    ELSE connectCreate(c, ch)

\* disconnect() up to its first await
disconnect(c) ==
    LET c1 == [c EXCEPT !.est = FALSE]
    IN IF c.pool # 0
       THEN Push([c1 EXCEPT !.h.endCalled = TRUE],
                 [Frame("disconnect", "ending") EXCEPT !.pool = c.pool])
       ELSE Resume(c1, "ok", NoErr, 0)

\* disconnect() after `await this.pool.end()`: this.pool = null
disconnectAfterEndMutKeepPool(c) ==
    LET id == Top(c.stk).pool
    IN Return([c EXCEPT !.pools[id].ends = @ + 1, !.est = FALSE], "ok", NoErr, 0)
disconnectAfterEnd(c) ==
    LET id == Top(c.stk).pool
    IN Return([c EXCEPT !.pools[id].ends = @ + 1, !.pool = 0, !.est = FALSE],
              "ok", NoErr, 0)

\* reconnect() up to its first await
reconnect(c) ==
    disconnect(Push(Log(c, "disconnect"), Frame("reconnect", "await_disconnect")))

\* getConnection() from its pool check to pool.getConnection(); the frame on
\* top is that getConnection()
getConnectionAcquire(c, pc, missing) ==
    IF c.pool = 0
    THEN Return(c, "err", Err(missing, "internal"), 0)
    ELSE Log([Await(c, pc) EXCEPT !.stk[Len(c.stk)].pool = c.pool], "acquire")

\* getConnection() up to its first await
getConnection(c, ch) ==
    IF c.pool = 0
    THEN connect(Push(c, Frame("getConnection", "await_connect")), ch)
    ELSE getConnectionAcquire(Push(c, Frame("getConnection", "acquire1")),
                              "acquire1", "pool_not_available")

\* The catch block of getConnection() after the first acquisition failed
getConnectionCatchMutNoReconnect(c, err) == Return(c, "err", err, 0)
getConnectionCatch(c, err) ==
    IF shouldRetry(err)
    THEN reconnect(Await(c, "await_reconnect"))
    ELSE Return(c, "err", err, 0)

\* query() and transaction() up to their first await
query(c, ch) == getConnection(Push(c, Frame("query", "await_conn")), ch)
transaction(c, ch) == getConnection(Push(c, Frame("transaction", "await_conn")), ch)

\* The finally block of testConnection, query and transaction
finallyReleaseMutSkip(c) == c
finallyRelease(c) == Release(c, Top(c.stk).conn)

\* transaction(): the error rethrown after the rollback attempt
transactionRethrowMutRollbackError(original, rollbackError) == rollbackError
transactionRethrow(original, rollbackError) == original

\* connect() after `await this.testConnection()`
connectAfterTest(c) ==
    LET f == Top(c.stk)
    IN IF f.res = "ok"
       THEN Return([c EXCEPT !.attempts = 0], "ok", NoErr, 0)
       ELSE connectCatch(c, f.err)

\* connect() after `await this.handleConnectionError(error)`, and
\* handleConnectionError after `await this.connect()`: the outcome is passed on
passOn(c) == LET f == Top(c.stk) IN Return(c, f.res, f.err, 0)

\* getConnection() after `await this.connect()`
getConnectionAfterConnect(c) ==
    LET f == Top(c.stk)
    IN IF f.res = "ok"
       THEN getConnectionAcquire(c, "acquire1", "pool_not_available")
       ELSE Return(c, "err", f.err, 0)

\* reconnect() after `await this.disconnect()`
reconnectAfterDisconnect(c, ch) ==
    LET f == Top(c.stk)
    IN IF f.res = "ok"
       THEN connect(Log(Await(c, "await_connect"), "connect"), ch)
       ELSE Return(Log(c, "disconnect:err"), "err", f.err, 0)

\* reconnect() after `await this.connect()`
reconnectAfterConnect(c) ==
    LET f == Top(c.stk)
    IN Return(Log(c, IF f.res = "ok" THEN "connect:ok" ELSE "connect:err"),
              f.res, f.err, 0)

\* getConnection() after `await this.reconnect()`
getConnectionAfterReconnect(c) ==
    LET f == Top(c.stk)
    IN IF f.res = "ok"
       THEN getConnectionAcquire(c, "acquire2", "reconnect_failed")
       ELSE Return(c, "err", f.err, 0)

\* query() after `await this.getConnection()`
queryAfterConn(c) ==
    LET f == Top(c.stk)
    IN IF f.res = "ok"
       THEN Await(c, "execute")
       ELSE Return(c, "err", f.err, 0)

\* transaction() after `await this.getConnection()`
transactionAfterConn(c) ==
    LET f == Top(c.stk)
    IN IF f.res = "ok"
       THEN TxLog(Await(c, "begin"), "begin")
       ELSE Return(c, "err", f.err, 0)

\* The catch block of transaction() up to its await of rollback
transactionCatchMutNoRollback(c, err) ==
    Return(TxLog(finallyRelease(c), "release"), "err", err, 0)
transactionCatch(c, err) ==
    TxLog([Await(c, "rollback") EXCEPT !.stk[Len(c.stk)].err = err], "rollback")

\* The frame on top resumes after the call it awaited settled
Continuation(c, ch) ==
    LET f == Top(c.stk)
    IN CASE f.fn = "connect" /\ f.pc = "await_test" -> connectAfterTest(c)
         [] f.fn = "connect" /\ f.pc = "await_hce" -> passOn(c)
         [] f.fn = "handleConnectionError" /\ f.pc = "await_connect" -> passOn(c)
         [] f.fn = "getConnection" /\ f.pc = "await_connect" ->
                getConnectionAfterConnect(c)
         [] f.fn = "getConnection" /\ f.pc = "await_reconnect" ->
                getConnectionAfterReconnect(c)
         [] f.fn = "reconnect" /\ f.pc = "await_disconnect" ->
                reconnectAfterDisconnect(c, ch)
         [] f.fn = "reconnect" /\ f.pc = "await_connect" -> reconnectAfterConnect(c)
         [] f.fn = "query" /\ f.pc = "await_conn" -> queryAfterConn(c)
         [] f.fn = "transaction" /\ f.pc = "await_conn" -> transactionAfterConn(c)

\* Every frame resumed by a settled call runs, until the frame on top awaits
\* a driver call or a timer, or the top-level call has settled
RECURSIVE RunToAwait(_, _)
RunToAwait(c, ch) ==
    IF c.over \/ Len(c.stk) = 1 \/ Top(c.stk).res = "none"
    THEN c
    ELSE RunToAwait(Continuation(c, ch), ch)

(***************************************************************************)
(* Actions.                                                                *)
(***************************************************************************)
CreateChoices == {"ok"} \cup ErrKinds

ConnInit ==
    /\ pool = 0
    /\ reconnectAttempts = 0
    /\ pools = <<>>
    /\ stack = [p \in Callers |-> <<>>]
    /\ hist = [p \in Callers |-> NoHist]
    /\ calls = 0
    /\ createPool \in CreateChoices
    /\ established = FALSE
    /\ overlapped = FALSE

\* Caller p's step ends in context c
Apply(p, c) ==
    /\ ~c.over
    /\ stack' = [stack EXCEPT ![p] = c.stk]
    /\ pool' = c.pool
    /\ reconnectAttempts' = c.attempts
    /\ pools' = c.pools
    /\ hist' = [hist EXCEPT ![p] = c.h]
    /\ established' = c.est
    /\ UNCHANGED <<calls, createPool, overlapped, svcVars, opVars, ctorVars, fnVars, cmdVars>>

\* Caller p's step: segment c0, then every continuation it resumes
Step(p, c0) == Apply(p, RunToAwait(c0, createPool))

\* Top-level call op of caller p up to its first await of a driver call
Start(p, op) ==
    LET ch == createPool
        c == [stk |-> <<Frame("main", "await")>>, pool |-> pool,
              attempts |-> reconnectAttempts, pools |-> pools, over |-> FALSE,
              est |-> established,
              h |-> [NoHist EXCEPT !.op = op, !.startPool = pool,
                                   !.startAttempts = reconnectAttempts,
                                   !.endPool = pool,
                                   !.endAttempts = reconnectAttempts]]
        c0 == CASE op = "connect" -> connect(c, ch)
                [] op = "disconnect" -> disconnect(c)
                [] op = "query" -> query(c, ch)
                [] op = "transaction" -> transaction(c, ch)
        c1 == RunToAwait(c0, ch)
    IN /\ \/ calls < MaxCalls
          \/ calls < MaxSeqCalls /\ ~overlapped /\ \A q \in Callers : ~Running(q)
       /\ ~c1.over
       /\ overlapped' = (overlapped \/ \E q \in Callers \ {p} : Running(q))
       /\ calls' = calls + 1
       /\ stack' = [stack EXCEPT ![p] = c1.stk]
       /\ pool' = c1.pool
       /\ reconnectAttempts' = c1.attempts
       /\ pools' = c1.pools
       /\ hist' = [hist EXCEPT ![p] = c1.h]
       /\ established' = c1.est
       /\ UNCHANGED <<createPool, svcVars, opVars, ctorVars, fnVars, cmdVars>>

\* A caller with no call in flight issues a top-level call
StartConnect(p) ==
    /\ Idle(p) \/ Done(p)
    /\ Start(p, "connect")
StartDisconnect(p) ==
    /\ Idle(p) \/ Done(p)
    /\ Start(p, "disconnect")
StartQuery(p) ==
    /\ Idle(p) \/ Done(p)
    /\ Start(p, "query")
StartTransaction(p) ==
    /\ Idle(p) \/ Done(p)
    /\ Start(p, "transaction")

\* Connections of pool id currently held by any caller
Held(id) ==
    UNION {{<<q, i>> : i \in {j \in DOMAIN hist[q].held : hist[q].held[j] = id}}
           : q \in Callers}

\* pool.end() of pool id has been called by p and has not settled
Ending(p, id) == Waiting(p, "disconnect", "ending") /\ Top(stack[p]).pool = id

\* pool.getConnection() of the frame on top can resolve: the pool is not
\* closed (end() closes it when it is called) and has a free connection
CanAcquire(p) ==
    LET id == Top(stack[p]).pool
    IN /\ pools[id].ends = 0
       /\ \A q \in Callers : ~Ending(q, id)
       /\ Cardinality(Held(id)) < connectionLimit

\* The frame on top now holds the connection just acquired
HoldNew(c) ==
    LET id == Top(c.stk).pool
    IN [Acquire(c, id) EXCEPT !.stk[Len(c.stk)].conn = id]

---------------------------------------------------------------------------
\* testConnection: pool.getConnection() resolves
TestAcquireOk(p) ==
    /\ Waiting(p, "testConnection", "acquire")
    /\ CanAcquire(p)
    /\ Step(p, Await(HoldNew(Ctx(p)), "ping"))

\* testConnection: pool.getConnection() rejects; connect() catches
TestAcquireFail(p, kind) ==
    /\ Waiting(p, "testConnection", "acquire")
    /\ Step(p, Return(Ctx(p), "err", Err("acquire", kind), 0))

\* testConnection: ping resolves, finally releases; connect() resets the
\* counter
TestPingOk(p) ==
    /\ Waiting(p, "testConnection", "ping")
    /\ LET c == finallyRelease(Ctx(p))
           id == Top(c.stk).pool
       IN Step(p, Return([c EXCEPT !.pools[id].probed = TRUE], "ok", NoErr, 0))

\* testConnection: ping rejects, finally releases, the error is rethrown;
\* connect() catches
TestPingFail(p, kind) ==
    /\ Waiting(p, "testConnection", "ping")
    /\ Step(p, Return(finallyRelease(Ctx(p)), "err", Err("ping", kind), 0))

\* handleConnectionError: the backoff timer fires, connect() is called again
HceDelayDone(p) ==
    /\ Waiting(p, "handleConnectionError", "delay")
    /\ Step(p, connect(Await(Ctx(p), "await_connect"), createPool))

\* disconnect(): pool.end() resolves; this.pool = null
DisconnectEndOk(p) ==
    /\ Waiting(p, "disconnect", "ending")
    /\ Step(p, disconnectAfterEnd(Ctx(p)))

\* disconnect(): pool.end() rejects; the error is rethrown
DisconnectEndFail(p) ==
    /\ Waiting(p, "disconnect", "ending")
    /\ Step(p, Return([Ctx(p) EXCEPT !.est = FALSE],
                      "err", Err("end", "ECONNREFUSED"), 0))

\* getConnection(): the first pool.getConnection() resolves
GetConnAcquire1Ok(p) ==
    /\ Waiting(p, "getConnection", "acquire1")
    /\ CanAcquire(p)
    /\ LET c == Log(HoldNew(Ctx(p)), "acquire:ok")
       IN Step(p, Return(c, "ok", NoErr, Top(c.stk).conn))

\* getConnection(): the first pool.getConnection() rejects
GetConnAcquire1Fail(p, kind) ==
    /\ Waiting(p, "getConnection", "acquire1")
    /\ LET err == Err("acquire", kind)
       IN Step(p, getConnectionCatch(
                    Log(Ctx(p), IF shouldRetry(err) THEN "acquire:retryable"
                                ELSE "acquire:fatal"), err))

\* getConnection(): the second pool.getConnection() resolves
GetConnAcquire2Ok(p) ==
    /\ Waiting(p, "getConnection", "acquire2")
    /\ CanAcquire(p)
    /\ LET c == Log(HoldNew(Ctx(p)), "acquire:ok")
       IN Step(p, Return(c, "ok", NoErr, Top(c.stk).conn))

\* getConnection(): the second pool.getConnection() rejects
GetConnAcquire2Fail(p, kind) ==
    /\ Waiting(p, "getConnection", "acquire2")
    /\ Step(p, Return(Log(Ctx(p), "acquire:err"), "err", Err("acquire2", kind), 0))

\* query(): execute resolves, finally releases, the rows are returned
QueryExecuteOk(p) ==
    /\ Waiting(p, "query", "execute")
    /\ Step(p, Return(finallyRelease(Ctx(p)), "ok", NoErr, 0))

\* query(): execute rejects, finally releases, the error is rethrown
QueryExecuteFail(p) ==
    /\ Waiting(p, "query", "execute")
    /\ Step(p, Return(finallyRelease(Ctx(p)), "err", Err("execute", "QUERY"), 0))

\* transaction(): beginTransaction resolves, the callback is invoked
TxBeginOk(p) ==
    /\ Waiting(p, "transaction", "begin")
    /\ Step(p, TxLog(Await(Ctx(p), "fn"), "fn"))

\* transaction(): beginTransaction rejects
TxBeginFailMutCallFn(p) ==
    /\ Waiting(p, "transaction", "begin")
    /\ Step(p, TxLog(Await(TxLog(Ctx(p), "begin:err"), "fn"), "fn"))
TxBeginFail(p) ==
    /\ Waiting(p, "transaction", "begin")
    /\ Step(p, transactionCatch(TxLog(Ctx(p), "begin:err"), Err("begin", "QUERY")))

\* transaction(): the callback resolves, commit is sent
TxFnOk(p) ==
    /\ Waiting(p, "transaction", "fn")
    /\ Step(p, TxLog(TxLog(Await(Ctx(p), "commit"), "fn:ok"), "commit"))

\* transaction(): the callback rejects
TxFnFail(p) ==
    /\ Waiting(p, "transaction", "fn")
    /\ Step(p, transactionCatch(TxLog(Ctx(p), "fn:err"), Err("fn", "QUERY")))

\* transaction(): commit resolves, finally releases, the result is returned
TxCommitOk(p) ==
    /\ Waiting(p, "transaction", "commit")
    /\ Step(p, Return(TxLog(finallyRelease(Ctx(p)), "release"), "ok", NoErr, 0))

\* transaction(): commit rejects
TxCommitFail(p) ==
    /\ Waiting(p, "transaction", "commit")
    /\ Step(p, transactionCatch(TxLog(Ctx(p), "commit:err"), Err("commit", "QUERY")))

\* transaction(): rollback resolves, the caught error is rethrown
TxRollbackOk(p) ==
    /\ Waiting(p, "transaction", "rollback")
    /\ Step(p, Return(TxLog(finallyRelease(Ctx(p)), "release"),
                      "err", Top(stack[p]).err, 0))

\* transaction(): rollback rejects, which is only logged
TxRollbackFail(p) ==
    /\ Waiting(p, "transaction", "rollback")
    /\ Step(p, Return(TxLog(TxLog(finallyRelease(Ctx(p)), "rollback:err"), "release"),
                      "err",
                      transactionRethrow(Top(stack[p]).err, Err("rollback", "QUERY")),
                      0))

ConnNext ==
    \/ \E p \in Callers : StartConnect(p)
    \/ \E p \in Callers : StartDisconnect(p)
    \/ \E p \in Callers : StartQuery(p)
    \/ \E p \in Callers : StartTransaction(p)
    \/ \E p \in Callers : TestAcquireOk(p)
    \/ \E p \in Callers, kind \in ErrKinds : TestAcquireFail(p, kind)
    \/ \E p \in Callers : TestPingOk(p)
    \/ \E p \in Callers, kind \in ErrKinds : TestPingFail(p, kind)
    \/ \E p \in Callers : HceDelayDone(p)
    \/ \E p \in Callers : DisconnectEndOk(p)
    \/ \E p \in Callers : DisconnectEndFail(p)
    \/ \E p \in Callers : GetConnAcquire1Ok(p)
    \/ \E p \in Callers, kind \in ErrKinds : GetConnAcquire1Fail(p, kind)
    \/ \E p \in Callers : GetConnAcquire2Ok(p)
    \/ \E p \in Callers, kind \in ErrKinds : GetConnAcquire2Fail(p, kind)
    \/ \E p \in Callers : QueryExecuteOk(p)
    \/ \E p \in Callers : QueryExecuteFail(p)
    \/ \E p \in Callers : TxBeginOk(p)
    \/ \E p \in Callers : TxBeginFail(p)
    \/ \E p \in Callers : TxFnOk(p)
    \/ \E p \in Callers : TxFnFail(p)
    \/ \E p \in Callers : TxCommitOk(p)
    \/ \E p \in Callers : TxCommitFail(p)
    \/ \E p \in Callers : TxRollbackOk(p)
    \/ \E p \in Callers : TxRollbackFail(p)


(***************************************************************************)
(* DatabaseConnection.getInstance: the construction of the singleton from  *)
(* the connection string envConfig.mysqlUrl.                               *)
(*                                                                         *)
(* new URL(s) follows the WHATWG parser for a scheme that is not special   *)
(* (mysql), over an alphabet of one letter, one digit and the delimiters   *)
(* ":", "/" and "@".                                                       *)
(*   mysqlUrl : the connection string of the environment                   *)
(*   instance : DatabaseConnection.instance: <<>> when undefined, else the *)
(*              one-element sequence of the instance's config              *)
(*   ctorOut  : how the last getInstance() call ended                      *)
(***************************************************************************)
MaxUrlLen == 3
DefaultPort == 3306

Alpha == {"m"}
Digit == {"1"}
UrlChars == Alpha \cup Digit \cup {":", "/", "@"}

Strings(n) == UNION {[1..k -> UrlChars] : k \in 0..n}

\* The first and the last index of ch in s, 0 if there is none
First(s, ch) ==
    LET is == {i \in DOMAIN s : s[i] = ch}
    IN IF is = {} THEN 0 ELSE CHOOSE i \in is : \A j \in is : i <= j
Last(s, ch) ==
    LET is == {i \in DOMAIN s : s[i] = ch}
    IN IF is = {} THEN 0 ELSE CHOOSE i \in is : \A j \in is : i >= j

\* The index of the ":" that ends the scheme, 0 if s does not start with one
SchemeEnd(s) ==
    LET i == First(s, ":")
    IN IF /\ i > 1
          /\ s[1] \in Alpha
          /\ \A j \in 2..(i - 1) : s[j] \in Alpha \cup Digit
       THEN i
       ELSE 0

\* The userinfo percent-encode set, as far as the alphabet goes
RECURSIVE EncodeUserinfo(_)
EncodeUserinfo(s) ==
    IF s = <<>> THEN <<>>
    ELSE (CASE Head(s) = "@" -> <<"%", "4", "0">>
            [] Head(s) = ":" -> <<"%", "3", "A">>
            [] OTHER -> <<Head(s)>>) \o EncodeUserinfo(Tail(s))

\* The number a string of digits denotes
RECURSIVE PortValue(_)
PortValue(s) ==
    IF s = <<>> THEN 0
    ELSE 10 * PortValue(SubSeq(s, 1, Len(s) - 1)) + 1

\* new URL() throws a TypeError with this message
MsgInvalidUrl == "Invalid URL"

UrlFailure == [ok |-> FALSE, message |-> MsgInvalidUrl]

\* The url record of an authority a (what stands between "//" and the path)
ParseAuthority(a, pathname) ==
    LET at == Last(a, "@")
        cred == SubSeq(a, 1, at - 1)
        hostport == SubSeq(a, at + 1, Len(a))
        sep == First(cred, ":")
        username == IF sep = 0 THEN cred ELSE SubSeq(cred, 1, sep - 1)
        password == IF sep = 0 THEN <<>> ELSE SubSeq(cred, sep + 1, Len(cred))
        colon == First(hostport, ":")
        hostname == IF colon = 0 THEN hostport ELSE SubSeq(hostport, 1, colon - 1)
        port == IF colon = 0 THEN <<>> ELSE SubSeq(hostport, colon + 1, Len(hostport))
    IN IF at # 0 /\ hostport = <<>> THEN UrlFailure
       ELSE IF colon # 0 /\ hostname = <<>> THEN UrlFailure
       ELSE IF \E i \in DOMAIN port : port[i] \notin Digit THEN UrlFailure
       ELSE IF PortValue(port) > 65535 THEN UrlFailure
       ELSE [ok |-> TRUE,
             username |-> EncodeUserinfo(username),
             password |-> EncodeUserinfo(password),
             hostname |-> hostname,
             port |-> IF port = <<>> THEN 0 ELSE PortValue(port),
             hasPort |-> port # <<>>,
             pathname |-> pathname]

\* new URL(s): the url record, or failure (a TypeError is thrown)
URL(s) ==
    LET i == SchemeEnd(s)
        rest == SubSeq(s, i + 1, Len(s))
    IN IF i = 0 THEN UrlFailure
       ELSE IF Len(rest) >= 2 /\ rest[1] = "/" /\ rest[2] = "/"
            THEN LET after == SubSeq(rest, 3, Len(rest))
                     slash == First(after, "/")
                 IN IF slash = 0
                    THEN ParseAuthority(after, <<>>)
                    ELSE ParseAuthority(SubSeq(after, 1, slash - 1),
                                        SubSeq(after, slash, Len(after)))
            ELSE [ok |-> TRUE, username |-> <<>>, password |-> <<>>,
                  hostname |-> <<>>, port |-> 0, hasPort |-> FALSE,
                  pathname |-> rest]

MsgInvalidConnectionString == "Invalid MySQL connection string"

\* parseConnectionString: the config, or the error it throws, whose message
\* is the prefix, ": " and the message of the error caught
parseConnectionStringMutAcceptAll(connectionString) ==
    [ok |-> TRUE, host |-> <<>>, port |-> DefaultPort, user |-> <<>>,
     password |-> <<>>, database |-> <<>>, connectionLimit |-> connectionLimit]
parseConnectionString(connectionString) ==
    LET url == URL(connectionString)
    IN IF url.ok
       THEN [ok |-> TRUE,
             host |-> url.hostname,
             port |-> IF url.hasPort /\ url.port # 0 THEN url.port ELSE DefaultPort,
             user |-> url.username,
             password |-> url.password,
             database |-> SubSeq(url.pathname, 2, Len(url.pathname)),
             connectionLimit |-> connectionLimit]
       ELSE [ok |-> FALSE, message |-> <<MsgInvalidConnectionString, url.message>>]

\* A connection string as the tests and the README give it
ValidUrl == <<"m", ":", "/", "/", "m", ":", "m", "@", "m", ":", "1", "/", "m">>

UrlInputs ==
    Strings(MaxUrlLen)
        \cup {<<"m", ":", "/", "/">> \o t : t \in Strings(MaxUrlLen)}
        \cup {ValidUrl}

NotCalled == [kind |-> "none"]
Returned == [kind |-> "returned"]
Thrown(message) == [kind |-> "thrown", message |-> message]

\* No instance yet
CtorInit ==
    /\ mysqlUrl \in UrlInputs
    /\ instance = <<>>
    /\ ctorOut = NotCalled

\* The instance the pool manager runs on
Constructed ==
    /\ mysqlUrl = ValidUrl
    /\ instance = <<parseConnectionString(ValidUrl)>>
    /\ ctorOut = Returned

\* getInstance(): the constructor runs and sets the singleton
GetInstanceNew ==
    LET config == parseConnectionString(mysqlUrl)
    IN /\ instance = <<>>
       /\ config.ok
       /\ instance' = <<config>>
       /\ ctorOut' = Returned
       /\ UNCHANGED <<mysqlUrl, svcVars, opVars, connVars, fnVars, cmdVars>>

\* getInstance(): the constructor throws; the singleton stays undefined
GetInstanceThrow ==
    LET config == parseConnectionString(mysqlUrl)
    IN /\ instance = <<>>
       /\ ~config.ok
       /\ ctorOut' = Thrown(config.message)
       /\ UNCHANGED <<mysqlUrl, instance, svcVars, opVars, connVars, fnVars, cmdVars>>

\* getInstance(): the singleton exists and is returned
GetInstanceAgain ==
    /\ instance # <<>>
    /\ ctorOut' = Returned
    /\ UNCHANGED <<mysqlUrl, instance, svcVars, opVars, connVars, fnVars, cmdVars>>

CtorNext ==
    \/ GetInstanceNew
    \/ GetInstanceThrow
    \/ GetInstanceAgain

(***************************************************************************)
(* validateBlacklistEntry and validateSearchCriteria applied to inputs of  *)
(* every shape: strings that are empty, blank, short, as long as the bound *)
(* and one longer.                                                         *)
(*   fnIn   : the input (an entry or search criteria)                      *)
(*   fnName : the function applied to it, "none" before                    *)
(*   fnOut  : what the function returned                                   *)
(*   fnPrev : what it returned before it was applied to its own result     *)
(***************************************************************************)
Long(n) == [i \in 1..n |-> "x"]

FnIdentifiers ==
    {<<>>, <<" ">>, <<"a">>, <<" ", "a", " ">>, Long(MaxIdentifierLen),
     Long(MaxIdentifierLen + 1)}
FnCreatedBys ==
    {<<>>, <<"u">>, <<"u", " ">>, Long(MaxCreatedByLen), Long(MaxCreatedByLen + 1)}
FnNames ==
    {None, Some(<<>>), Some(<<" ">>), Some(<<"j">>), Some(<<" ", "j", " ", "d", " ">>),
     Some(Long(MaxNameLen)), Some(Long(MaxNameLen + 1))}

FnEntries ==
    {EntryInput(identifier, createdBy, firstName, lastName) :
        identifier \in FnIdentifiers, createdBy \in FnCreatedBys,
        firstName \in FnNames, lastName \in FnNames}

FnCriteria ==
    {Criteria(identifier, firstName, lastName) :
        identifier \in {None} \cup {Some(x) : x \in FnIdentifiers},
        firstName \in FnNames, lastName \in FnNames}

FnInputs ==
    {[kind |-> "entry", v |-> e] : e \in FnEntries}
        \cup {[kind |-> "criteria", v |-> c] : c \in FnCriteria}

\* No function applied (the states of the other specifications)
FnIdle ==
    /\ fnIn = [kind |-> "none"]
    /\ fnName = "none"
    /\ fnOut = [isValid |-> TRUE, errors |-> <<>>]
    /\ fnPrev = None

FnInit ==
    /\ fnIn \in FnInputs
    /\ fnName = "none"
    /\ fnOut = [isValid |-> TRUE, errors |-> <<>>]
    /\ fnPrev = None

ApplyValidateBlacklistEntry ==
    /\ fnName = "none"
    /\ fnIn.kind = "entry"
    /\ fnName' = "validateBlacklistEntry"
    /\ fnOut' = validateBlacklistEntry(fnIn.v)
    /\ UNCHANGED <<fnIn, fnPrev, svcVars, opVars, connVars, ctorVars, cmdVars>>

ApplyValidateSearchCriteria ==
    /\ fnName = "none"
    /\ fnIn.kind = "criteria"
    /\ fnName' = "validateSearchCriteria"
    /\ fnOut' = validateSearchCriteria(fnIn.v)
    /\ UNCHANGED <<fnIn, fnPrev, svcVars, opVars, connVars, ctorVars, cmdVars>>

ApplySanitizeBlacklistEntryInput ==
    /\ fnName = "none"
    /\ fnIn.kind = "entry"
    /\ fnName' = "sanitizeBlacklistEntryInput"
    /\ fnOut' = sanitizeBlacklistEntryInput(fnIn.v)
    /\ UNCHANGED <<fnIn, fnPrev, svcVars, opVars, connVars, ctorVars, cmdVars>>

ApplySanitizeSearchCriteria ==
    /\ fnName = "none"
    /\ fnIn.kind = "criteria"
    /\ fnName' = "sanitizeSearchCriteria"
    /\ fnOut' = sanitizeSearchCriteria(fnIn.v)
    /\ UNCHANGED <<fnIn, fnPrev, svcVars, opVars, connVars, ctorVars, cmdVars>>

\* The function is applied to the result of its first application
ApplySanitizeBlacklistEntryInputAgain ==
    /\ fnName = "sanitizeBlacklistEntryInput"
    /\ fnPrev = None
    /\ fnPrev' = Some(fnOut)
    /\ fnOut' = sanitizeBlacklistEntryInput(fnOut)
    /\ UNCHANGED <<fnIn, fnName, svcVars, opVars, connVars, ctorVars, cmdVars>>

ApplySanitizeSearchCriteriaAgain ==
    /\ fnName = "sanitizeSearchCriteria"
    /\ fnPrev = None
    /\ fnPrev' = Some(fnOut)
    /\ fnOut' = sanitizeSearchCriteria(fnOut)
    /\ UNCHANGED <<fnIn, fnName, svcVars, opVars, connVars, ctorVars, cmdVars>>

FnNext ==
    \/ ApplyValidateBlacklistEntry
    \/ ApplyValidateSearchCriteria
    \/ ApplySanitizeBlacklistEntryInput
    \/ ApplySanitizeSearchCriteria
    \/ ApplySanitizeBlacklistEntryInputAgain
    \/ ApplySanitizeSearchCriteriaAgain

(***************************************************************************)
(* PermissionMiddleware.requireAdmin and the commands /addbl and /removebl *)
(* that call it before the service.                                        *)
(*   cmdPc, cmdName : each caller's command in flight and its position     *)
(*   cmdIx, cmdArg  : the interaction and the options of the command       *)
(*   cmdPerm        : what requireAdmin returned                           *)
(*   cmdDeferred    : interaction.deferred                                 *)
(*   cmdLog         : history: the calls the command has made, in order    *)
(*   cmdStarted     : the number of commands started                       *)
(* The service call of a command is the call of the same caller in svcVars *)
(* (addEntry) or opVars (getById, removeEntry).                            *)
(***************************************************************************)
MaxCmds == 2

\* An interaction: in a guild or a direct message; the member and its
\* roles; a permission service whose checkAdminRole rejects (as the one the
\* tests install); null, as the tests pass to requireAdmin
Interaction(guild, member, service) ==
    [null |-> FALSE, guild |-> guild, member |-> member, service |-> service]
NullInteraction == [null |-> TRUE, guild |-> FALSE, member |-> "none", service |-> "real"]

Interactions ==
    {Interaction(FALSE, "none", "real"), Interaction(TRUE, "none", "real"),
     Interaction(TRUE, "plain", "real"), Interaction(TRUE, "admin", "real"),
     Interaction(TRUE, "noroles", "real"), Interaction(TRUE, "admin", "rejects")}

\* The options of a command: id for /removebl, the others for /addbl
Options(id, identifier, firstname, lastname) ==
    [id |-> id, identifier |-> identifier, firstname |-> firstname,
     lastname |-> lastname]
NoOptions == Options(0, None, None, None)

AddblOptions ==
    {Options(0, None, None, None), Options(0, Some(<<" ">>), None, None),
     Options(0, Some(<<"a">>), None, None),
     Options(0, Some(<<"c", " ">>), Some(<<"j">>), Some(<<" ">>))}
RemoveblOptions == {Options(id, None, None, None) : id \in Ids}

\* interaction.user.id
UserId == <<"u">>

MsgGuildOnly == "This command can only be used in a server, not in direct messages."
MsgAdminRequired ==
    "You do not have permission to use this command. Administrator role required."
MsgPermissionError == "An error occurred while checking permissions. Please try again."

PermPending == [kind |-> "pending", allowed |-> FALSE, errorMessage |-> ""]
PermAllowed == [kind |-> "returned", allowed |-> TRUE, errorMessage |-> ""]
PermDenied(msg) == [kind |-> "returned", allowed |-> FALSE, errorMessage |-> msg]
PermThrown == [kind |-> "thrown", allowed |-> FALSE, errorMessage |-> ""]

\* PermissionService.hasAdminRole: member.roles.cache.has(adminRoleId); an
\* exception (a member without roles) is caught and gives false
hasAdminRole(member) == IF member = "noroles" THEN FALSE ELSE member = "admin"

\* PermissionService.checkAdminRole
checkAdminRole(interaction) ==
    IF ~interaction.guild \/ interaction.member = "none"
    THEN FALSE
    ELSE hasAdminRole(interaction.member)

\* How the call of checkAdminRole inside requireAdmin ends: it is not
\* reached, resolves true or false, or rejects
RoleCheck(interaction) ==
    IF interaction.null \/ ~interaction.guild THEN "notcalled"
    ELSE IF interaction.service = "rejects" THEN "rejects"
    ELSE IF checkAdminRole(interaction) THEN "true" ELSE "false"

\* The try block of requireAdmin
requireAdminTry(interaction) ==
    IF interaction.null THEN PermThrown
    ELSE IF ~interaction.guild THEN PermDenied(MsgGuildOnly)
    ELSE IF RoleCheck(interaction) = "rejects" THEN PermThrown
    ELSE IF RoleCheck(interaction) = "false" THEN PermDenied(MsgAdminRequired)
    ELSE PermAllowed

\* PermissionMiddleware.requireAdmin
requireAdminMutFailOpen(interaction) ==
    IF requireAdminTry(interaction).kind = "thrown"
    THEN PermAllowed
    ELSE requireAdminTry(interaction)
requireAdmin(interaction) ==
    IF requireAdminTry(interaction).kind = "thrown"
    THEN PermDenied(MsgPermissionError)
    ELSE requireAdminTry(interaction)

\* `!permissionResult.allowed`
DeniedMutNever(permissionResult) == FALSE
Denied(permissionResult) == ~permissionResult.allowed

\* The entry /addbl passes to addEntry
entryInput(options) ==
    EntryInput(Trim(options.identifier[1]), UserId,
               IF Usable(options.firstname) THEN Some(Trim(options.firstname[1])) ELSE None,
               IF Usable(options.lastname) THEN Some(Trim(options.lastname[1])) ELSE None)

\* The message of the catch block of /addbl
addblErrorMessage(msg) ==
    IF IncludesDuplicateEntry(msg) THEN "This identifier is already blacklisted."
    ELSE IF msg = MsgValidation THEN "Invalid input"
    ELSE IF msg = MsgAddFailed THEN "Database error occurred. Please try again later."
    ELSE "errorResult.userMessage"

\* The message of the catch block of /removebl
removeblErrorMessage(msg) ==
    IF msg = MsgInvalidId THEN "Invalid entry ID"
    ELSE IF msg = MsgRemoveFailed
    THEN "Database error occurred while removing entry. Please try again later."
    ELSE IF msg = MsgGetFailed
    THEN "Unable to verify entry existence. Please check the ID and try again."
    ELSE "errorResult.userMessage"

Call(name, arg) == [call |-> name, arg |-> arg]

\* How requireAdmin ended, for the history
Verdict(permissionResult) ==
    IF permissionResult.kind = "thrown" THEN "thrown"
    ELSE IF permissionResult.allowed THEN "allowed" ELSE "denied"

\* The table the commands run on: one entry, with id 1
CmdRows == {Row(1, <<"a">>, Some(<<"j">>), None)}

CmdInit ==
    /\ cmdPc = [p \in Callers |-> "idle"]
    /\ cmdName = [p \in Callers |-> "none"]
    /\ cmdIx = [p \in Callers |-> NullInteraction]
    /\ cmdArg = [p \in Callers |-> NoOptions]
    /\ cmdPerm = [p \in Callers |-> PermPending]
    /\ cmdDeferred = [p \in Callers |-> FALSE]
    /\ cmdLog = [p \in Callers |-> <<>>]
    /\ cmdStarted = 0

\* A command is invoked and calls requireAdmin, which it awaits
CmdStart(p, name, interaction, options) ==
    /\ cmdStarted < MaxCmds
    /\ cmdStarted' = cmdStarted + 1
    /\ cmdPc' = [cmdPc EXCEPT ![p] = "requireAdmin"]
    /\ cmdName' = [cmdName EXCEPT ![p] = name]
    /\ cmdIx' = [cmdIx EXCEPT ![p] = interaction]
    /\ cmdArg' = [cmdArg EXCEPT ![p] = options]
    /\ cmdPerm' = [cmdPerm EXCEPT ![p] = PermPending]
    /\ cmdDeferred' = [cmdDeferred EXCEPT ![p] = FALSE]
    /\ cmdLog' = [cmdLog EXCEPT ![p] = <<>>]
    /\ UNCHANGED <<svcVars, opVars, connVars, ctorVars, fnVars>>

\* AddBlacklistCommand.execute(interaction)
AddblExecute(p, interaction, options) ==
    /\ cmdPc[p] = "idle"
    /\ CmdStart(p, "addbl", interaction, options)

\* RemoveBlacklistCommand.execute(interaction)
RemoveblExecute(p, interaction, options) ==
    /\ cmdPc[p] = "idle"
    /\ CmdStart(p, "removebl", interaction, options)

\* requireAdmin(interaction) called by itself
RequireAdminCall(p, interaction) ==
    /\ cmdPc[p] = "idle"
    /\ CmdStart(p, "requireAdmin", interaction, NoOptions)

\* What the command does when requireAdmin has settled, up to its next
\* await: the call it makes and its position
AfterRequireAdmin(name, options, permissionResult) ==
    IF name = "requireAdmin" THEN <<>>
    ELSE IF permissionResult.kind = "thrown"
    THEN <<Call("reply", "errorResult.userMessage")>>
    ELSE IF Denied(permissionResult)
    THEN <<Call("reply", permissionResult.errorMessage)>>
    ELSE IF name = "addbl" /\ ~Truthy(options.identifier)
    THEN <<Call("reply", "Error: Identifier is required")>>
    ELSE IF name = "removebl" /\ InvalidId(options.id)
    THEN <<Call("reply", "Error: Please provide a valid blacklist entry ID")>>
    ELSE <<Call("deferReply", "")>>

\* requireAdmin settles and the command goes on
RequireAdminSettle(p) ==
    LET permissionResult == requireAdmin(cmdIx[p])
        check == RoleCheck(cmdIx[p])
        next == AfterRequireAdmin(cmdName[p], cmdArg[p], permissionResult)
    IN /\ cmdPc[p] = "requireAdmin"
       /\ cmdPerm' = [cmdPerm EXCEPT ![p] = permissionResult]
       /\ cmdLog' = [cmdLog EXCEPT ![p] =
                       @ \o (IF check = "notcalled" THEN <<>>
                             ELSE <<Call("checkAdminRole", check)>>)
                         \o <<Call("requireAdmin", Verdict(permissionResult))>> \o next]
       /\ cmdPc' = [cmdPc EXCEPT ![p] =
                      IF next = <<>> THEN "done"
                      ELSE IF next[1].call = "reply" THEN "reply" ELSE "deferReply"]
       /\ UNCHANGED <<cmdName, cmdIx, cmdArg, cmdDeferred, cmdStarted>>
       /\ UNCHANGED <<svcVars, opVars, connVars, ctorVars, fnVars>>

\* /addbl: deferReply resolves; addEntry is called
AddblDeferReplyOk(p) ==
    /\ cmdPc[p] = "deferReply"
    /\ cmdName[p] = "addbl"
    /\ cmdDeferred' = [cmdDeferred EXCEPT ![p] = TRUE]
    /\ cmdLog' = [cmdLog EXCEPT ![p] = Append(@, Call("addEntry", ""))]
    /\ cmdPc' = [cmdPc EXCEPT ![p] = "addEntry"]
    /\ addEntry(p, entryInput(cmdArg[p]))
    /\ UNCHANGED <<cmdName, cmdIx, cmdArg, cmdPerm, cmdStarted>>

\* /removebl: deferReply resolves; getById is called
RemoveblDeferReplyOk(p) ==
    /\ cmdPc[p] = "deferReply"
    /\ cmdName[p] = "removebl"
    /\ cmdDeferred' = [cmdDeferred EXCEPT ![p] = TRUE]
    /\ cmdLog' = [cmdLog EXCEPT ![p] = Append(@, Call("getById", ""))]
    /\ cmdPc' = [cmdPc EXCEPT ![p] = "getById"]
    /\ getById(p, cmdArg[p].id)
    /\ UNCHANGED <<cmdName, cmdIx, cmdArg, cmdPerm, cmdStarted>>

\* The command replies with content and awaits the reply
CmdReply(p, content) ==
    /\ cmdLog' = [cmdLog EXCEPT ![p] =
                    Append(@, Call(IF cmdDeferred[p] THEN "editReply" ELSE "reply",
                                   content))]
    /\ cmdPc' = [cmdPc EXCEPT ![p] = "reply"]
    /\ UNCHANGED <<cmdName, cmdIx, cmdArg, cmdPerm, cmdDeferred, cmdStarted>>

\* deferReply rejects: the catch block replies
DeferReplyFail(p) ==
    /\ cmdPc[p] = "deferReply"
    /\ CmdReply(p, "errorResult.userMessage")
    /\ UNCHANGED <<svcVars, opVars, connVars, ctorVars, fnVars>>

\* /addbl: addEntry has settled
AddblAddEntrySettled(p) ==
    /\ cmdPc[p] = "addEntry"
    /\ svcPc[p] = "done"
    /\ CmdReply(p, IF svcOut[p].kind = "resolved"
                   THEN "Successfully added blacklist entry"
                   ELSE addblErrorMessage(svcOut[p].msg))
    /\ UNCHANGED <<svcVars, opVars, connVars, ctorVars, fnVars>>

\* `!existingEntry`
NoEntryMutNever(existingEntry) == FALSE
NoEntry(existingEntry) == existingEntry = None

\* /removebl: getById has settled; an entry found, removeEntry is called
RemoveblGetByIdSettled(p) ==
    /\ cmdPc[p] = "getById"
    /\ opPc[p] = "done"
    /\ IF opOut[p].kind = "thrown"
       THEN /\ CmdReply(p, removeblErrorMessage(opOut[p].msg))
            /\ UNCHANGED <<svcVars, opVars, connVars, ctorVars, fnVars>>
       ELSE IF NoEntry(opOut[p].val)
       THEN /\ CmdReply(p, "No blacklist entry found with ID")
            /\ UNCHANGED <<svcVars, opVars, connVars, ctorVars, fnVars>>
       ELSE /\ cmdLog' = [cmdLog EXCEPT ![p] = Append(@, Call("removeEntry", ""))]
            /\ cmdPc' = [cmdPc EXCEPT ![p] = "removeEntry"]
            /\ removeEntry(p, cmdArg[p].id)
            /\ UNCHANGED <<cmdName, cmdIx, cmdArg, cmdPerm, cmdDeferred, cmdStarted>>

\* /removebl: removeEntry has settled
RemoveblRemoveEntrySettled(p) ==
    /\ cmdPc[p] = "removeEntry"
    /\ opPc[p] = "done"
    /\ CmdReply(p, IF opOut[p].kind = "thrown"
                   THEN removeblErrorMessage(opOut[p].msg)
                   ELSE IF opOut[p].val
                   THEN "Successfully removed blacklist entry"
                   ELSE "Failed to remove blacklist entry with ID")
    /\ UNCHANGED <<svcVars, opVars, connVars, ctorVars, fnVars>>

\* The reply is sent: execute returns
ReplyOk(p) ==
    /\ cmdPc[p] = "reply"
    /\ cmdPc' = [cmdPc EXCEPT ![p] = "done"]
    /\ UNCHANGED <<cmdName, cmdIx, cmdArg, cmdPerm, cmdDeferred, cmdLog, cmdStarted>>
    /\ UNCHANGED <<svcVars, opVars, connVars, ctorVars, fnVars>>

CmdNext ==
    \/ \E p \in Callers, interaction \in Interactions, options \in AddblOptions :
            AddblExecute(p, interaction, options)
    \/ \E p \in Callers, interaction \in Interactions, options \in RemoveblOptions :
            RemoveblExecute(p, interaction, options)
    \/ \E p \in Callers, interaction \in Interactions \cup {NullInteraction} :
            RequireAdminCall(p, interaction)
    \/ \E p \in Callers : RequireAdminSettle(p)
    \/ \E p \in Callers : AddblDeferReplyOk(p)
    \/ \E p \in Callers : RemoveblDeferReplyOk(p)
    \/ \E p \in Callers : DeferReplyFail(p)
    \/ \E p \in Callers : AddblAddEntrySettled(p)
    \/ \E p \in Callers : RemoveblGetByIdSettled(p)
    \/ \E p \in Callers : RemoveblRemoveEntrySettled(p)
    \/ \E p \in Callers : ReplyOk(p)
    \/ \E p \in Callers : ExistsQueryOk(p)
    \/ \E p \in Callers : ExistsQueryFail(p)
    \/ \E p \in Callers : InsertOk(p)
    \/ \E p \in Callers : InsertFail(p)
    \/ \E p \in Callers : GetByIdQueryOk(p)
    \/ \E p \in Callers : GetByIdQueryFail(p)
    \/ \E p \in Callers : RemoveFindOk(p)
    \/ \E p \in Callers : RemoveFindFail(p)
    \/ \E p \in Callers : RemoveDeleteOk(p)
    \/ \E p \in Callers : RemoveDeleteFail(p)

vars == <<svcVars, opVars, connVars, ctorVars, fnVars, cmdVars>>

\* An empty table and a manager just constructed
Init == SvcInit /\ OpInit /\ ConnInit /\ Constructed /\ FnIdle /\ CmdInit

\* An empty table and no manager yet
InitCtor == SvcInit /\ OpInit /\ ConnInit /\ CtorInit /\ FnIdle /\ CmdInit

\* The add protocol under concurrent callers; the pool manager is not touched
SpecSvc == Init /\ [][SvcNext]_vars

\* A table with rows and a manager just constructed
InitRepo == RepoInit /\ OpInit /\ ConnInit /\ Constructed /\ FnIdle /\ CmdInit

\* An input of the validation functions
\* No command invoked, a table with an entry
InitCmd == store = CmdRows /\ InitRepo

InitFn == SvcInit /\ OpInit /\ ConnInit /\ Constructed /\ FnInit /\ CmdInit

\* The commands on a table with rows
SpecCmd == InitCmd /\ [][CmdNext]_vars

\* The validation functions on every input
SpecFn == InitFn /\ [][FnNext]_vars

\* Calls of the repository methods on a table with rows
SpecRepo == InitRepo /\ [][RepoNext]_vars

\* addEntry, getById, removeEntry and searchEntries calls on one table
SpecStore == Init /\ [][StoreNext]_vars

\* The pool manager under concurrent callers; the store is not touched
SpecConn == Init /\ [][ConnNext]_vars

\* The construction of the manager for every connection string
SpecCtor == InitCtor /\ [][CtorNext]_vars

(***************************************************************************)
(* Properties of the add protocol.                                         *)
(***************************************************************************)
SvcDone(p) == svcPc[p] = "done"
SvcIdentifier(p) == sanitizeBlacklistEntryInput(svcArg[p]).identifier
SvcValid(p) == validateBlacklistEntry(sanitizeBlacklistEntryInput(svcArg[p])).isValid

\* The settled calls of p and q ran concurrently with the same sanitized
\* identifier, against a store that held no entry with it
ConcurrentSameIdentifier(p, q) ==
    /\ p # q
    /\ SvcDone(p) /\ SvcDone(q)
    /\ q \in svcOverlap[p] /\ p \in svcOverlap[q]
    /\ SvcValid(p) /\ SvcValid(q)
    /\ SvcIdentifier(p) = SvcIdentifier(q)
    /\ ~svcHad[p] /\ ~svcHad[q]

\* C1: of the addEntry calls issued concurrently with the same sanitized
\* identifier against a store without it, exactly one resolves with an id:
\* no two of them both resolve.
C1_ExactlyOneConcurrentAddSucceeds ==
    \A p, q \in Callers :
        ConcurrentSameIdentifier(p, q)
            => ~(svcOut[p].kind = "resolved" /\ svcOut[q].kind = "resolved")

\* C2: in every reachable state the store holds at most one entry per
\* identifier.
C2_AtMostOneEntryPerIdentifier ==
    \A r1, r2 \in store : r1.identifier = r2.identifier => r1 = r2

\* A settled call that started with its sanitized identifier already stored
\* and that no other call overlapped
SoloDuplicateCall(p) == SvcDone(p) /\ svcHad[p] /\ svcOverlap[p] = {}

\* C3 as stated: such a call rejects with 'Duplicate entry', never calls
\* repository.create and leaves the stored entries unchanged.
C3_DuplicateAddRejectedAsDuplicate ==
    \A p \in Callers :
        SoloDuplicateCall(p)
            => /\ svcOut[p] = Rejected(MsgDuplicate)
               /\ "create" \notin svcCalled[p]
               /\ svcEnd[p] = svcSnap[p]

\* C3 amended: such a call always rejects, never calls repository.create and
\* leaves the stored entries unchanged; the rejection is 'Duplicate entry' when
\* the input is valid and the existence query answers, 'Validation failed'
\* when the input is invalid, 'Failed to verify entry uniqueness' when the
\* existence query fails.
C3_DuplicateAddRejected ==
    \A p \in Callers :
        SoloDuplicateCall(p)
            => /\ svcOut[p] =
                    IF ~SvcValid(p) THEN Rejected(MsgValidation)
                    ELSE IF "exists:error" \in svcCalled[p]
                         THEN Rejected(MsgVerifyFailed)
                         ELSE Rejected(MsgDuplicate)
               /\ "create" \notin svcCalled[p]
               /\ svcEnd[p] = svcSnap[p]

C3_Witness ==
    \E p \in Callers :
        /\ SoloDuplicateCall(p)
        /\ svcOut[p] = Rejected(MsgDuplicate)
        /\ svcSnap[p] # {}

(***************************************************************************)
(* Properties of the pool manager.                                         *)
(***************************************************************************)
\* How caller p's top-level call settled
Outcome(p) == stack[p][1]
Settled(p, op) == Done(p) /\ hist[p].op = op
Fulfilled(p) == Done(p) /\ Outcome(p).res = "ok"
Failed(p) == Done(p) /\ Outcome(p).res = "err"
FailedWith(p, src) == Failed(p) /\ Outcome(p).err.src = src

Has(log, ev) == IsIn(log, ev)
Count(log, ev) == Cardinality({i \in DOMAIN log : log[i] = ev})
\* The index of the first ev in log, 0 if there is none
Pos(log, ev) ==
    IF Has(log, ev)
    THEN CHOOSE i \in DOMAIN log : log[i] = ev /\ \A j \in 1..(i - 1) : log[j] # ev
    ELSE 0

\* C4: in query, transaction and the health probe a call holds at most the
\* one connection it acquired, release is never called on a connection that
\* is not held (a second time, or after a failed acquisition), and a settled
\* call holds none: each acquired connection was released exactly once.
C4_ReleasedExactlyOnce ==
    \A p \in Callers :
        /\ ~hist[p].misreleased
        /\ Len(hist[p].held) <= 1
        /\ Done(p) => hist[p].held = <<>>

C4_Witness ==
    \E p \in Callers :
        /\ Settled(p, "query")
        /\ FailedWith(p, "execute")
        /\ hist[p].held = <<>>
        /\ ~hist[p].misreleased

\* C5: in a transaction that acquired a connection, beginTransaction comes
\* before fn; if fn resolved commit is called, and rollback only after commit
\* threw; if fn rejected rollback is called and commit never; the release is
\* the last step, after the commit or rollback, and a settled transaction has
\* released.
C5_TransactionOrder ==
    \A p \in Callers :
        LET log == hist[p].txlog
        IN /\ Has(log, "fn") =>
                /\ 0 < Pos(log, "begin")
                /\ Pos(log, "begin") < Pos(log, "fn")
                /\ ~Has(log, "begin:err")
           /\ Has(log, "fn:ok") =>
                /\ Has(log, "commit")
                /\ Has(log, "rollback") =>
                     /\ Has(log, "commit:err")
                     /\ Pos(log, "commit:err") < Pos(log, "rollback")
           /\ Has(log, "fn:err") => Has(log, "rollback") /\ ~Has(log, "commit")
           /\ Has(log, "release") =>
                /\ Count(log, "release") = 1
                /\ log[Len(log)] = "release"
                /\ log[Len(log) - 1] \in {"commit", "rollback", "rollback:err"}
           /\ (Settled(p, "transaction") /\ log # <<>>) => Has(log, "release")

C5_Witness ==
    \E p \in Callers :
        /\ Settled(p, "transaction")
        /\ hist[p].txlog = <<"begin", "fn", "fn:ok", "commit", "commit:err",
                             "rollback", "release">>

\* C6: when fn rejects and the rollback throws too, transaction rejects with
\* the error of fn, not with the rollback error, and the connection is
\* released.
C6_OriginalErrorSurvivesRollbackFailure ==
    \A p \in Callers :
        (/\ Settled(p, "transaction")
         /\ Has(hist[p].txlog, "fn:err")
         /\ Has(hist[p].txlog, "rollback:err"))
            => /\ Failed(p)
               /\ Outcome(p).err = Err("fn", "QUERY")
               /\ Has(hist[p].txlog, "release")
               /\ hist[p].held = <<>>

C6_Witness ==
    \E p \in Callers :
        /\ Settled(p, "transaction")
        /\ hist[p].txlog = <<"begin", "fn", "fn:err", "rollback", "rollback:err",
                             "release">>
        /\ FailedWith(p, "fn")

\* No health probe has succeeded on any pool and createPool does not throw a
\* non-retryable error: no connection attempt of the run has succeeded
NoAttemptSucceeded ==
    /\ \A i \in DOMAIN pools : ~pools[i].probed
    /\ createPool \in ErrKinds => shouldRetry(Err("createPool", createPool))

\* C7: a connect() call that starts with the counter at 0 and no pool, all of
\* whose attempts fail with retryable errors, rejects with the terminal error
\* after 5 retries (the counter is then 5).
C7_RetriesUntilTerminalError ==
    \A p \in Callers :
        (/\ Settled(p, "connect")
         /\ hist[p].startAttempts = 0
         /\ hist[p].startPool = 0
         /\ NoAttemptSucceeded
         /\ Failed(p) => shouldRetry(Outcome(p).err))
            => /\ FailedWith(p, "terminal")
               /\ hist[p].endAttempts = maxReconnectAttempts

\* C8: when a connect() call resolves, the attempt counter is 0.
C8_CounterZeroAfterConnect ==
    \A p \in Callers :
        (Settled(p, "connect") /\ Fulfilled(p)) => hist[p].endAttempts = 0

\* C9: a connect() call that starts with no pool installed resolves only if
\* a health probe has succeeded on the pool it leaves installed.
C9_ResolvesOnlyAfterProbe ==
    \A p \in Callers :
        (Settled(p, "connect") /\ Fulfilled(p) /\ hist[p].startPool = 0)
            => /\ hist[p].endPool # 0
               /\ pools[hist[p].endPool].probed

\* The events of a getConnection() up to the reconnect after a retryable
\* failure of its first acquisition
RetryPrefix == <<"acquire", "acquire:retryable", "disconnect">>
RetriedAcquisition(p) == Done(p) /\ Has(hist[p].glog, "acquire:retryable")

\* C10 as stated: a getConnection() whose acquisition failed with a
\* retryable error disconnects once, connects once and acquires exactly once
\* more; if that acquisition fails its error reaches the caller.
C10_OneCycleOneFurtherAcquisition ==
    \A p \in Callers :
        RetriedAcquisition(p)
            => LET g == hist[p].glog
               IN /\ Count(g, "disconnect") = 1
                  /\ Count(g, "connect") = 1
                  /\ Count(g, "acquire") = 2
                  /\ Has(g, "acquire:err") => FailedWith(p, "acquire2")

\* C10 amended: such a getConnection() starts exactly one reconnect cycle and
\* never a second; the cycle connects only if its disconnect resolved, and
\* exactly one further acquisition follows only if its connect resolved and
\* left a pool installed; a failure of the disconnect, of the connect or of
\* the second acquisition reaches the caller with no further retry.
C10_AtMostOneCycleOneFurtherAcquisition ==
    \A p \in Callers :
        RetriedAcquisition(p)
            => LET g == hist[p].glog
               IN \/ /\ g = RetryPrefix \o <<"disconnect:err">>
                     /\ FailedWith(p, "end")
                  \/ /\ g = RetryPrefix \o <<"connect", "connect:err">>
                     /\ Failed(p)
                     /\ Outcome(p).err.src \in {"acquire", "ping", "terminal"}
                  \/ /\ g = RetryPrefix \o <<"connect", "connect:ok">>
                     /\ FailedWith(p, "reconnect_failed")
                  \/ /\ g = RetryPrefix \o <<"connect", "connect:ok",
                                              "acquire", "acquire:err">>
                     /\ FailedWith(p, "acquire2")
                  \/ /\ g = RetryPrefix \o <<"connect", "connect:ok",
                                              "acquire", "acquire:ok">>
                     /\ Outcome(p).err.src \notin
                            {"acquire", "acquire2", "end", "ping", "terminal",
                             "reconnect_failed", "pool_not_available"}

C10_Witness ==
    \E p \in Callers :
        /\ Settled(p, "query")
        /\ hist[p].glog = RetryPrefix \o <<"connect", "connect:ok",
                                            "acquire", "acquire:err">>
        /\ FailedWith(p, "acquire2")

\* C11: once a connect() has succeeded, as long as no disconnect() intervenes
\* (none is called, none settles) no step invokes the pool factory again, and
\* every further connect() call returns at once, successfully and with the
\* same pool installed.
C11_ConnectIdempotent ==
    [][(established /\ established') =>
         /\ Len(pools') = Len(pools)
         /\ pool' = pool
         /\ \A p \in Callers : StartConnect(p) => Fulfilled(p)']_vars

C11_Witness ==
    \E p, q \in Callers :
        /\ p # q
        /\ established
        /\ Settled(p, "connect") /\ Fulfilled(p) /\ hist[p].startPool = 0
        /\ Settled(q, "connect") /\ Fulfilled(q) /\ hist[q].startPool # 0
        /\ Len(pools) = 1

\* C12: a disconnect() called with no pool installed resolves without calling
\* pool.end; when a disconnect() resolves no pool is installed; and while
\* calls run one after the other no pool is ended twice.
C12_DisconnectSafeWhenClosed ==
    /\ \A p \in Callers :
          Settled(p, "disconnect")
              => /\ hist[p].startPool = 0 => Fulfilled(p) /\ ~hist[p].endCalled
                 /\ Fulfilled(p) => hist[p].endPool = 0
    /\ ~overlapped => \A id \in DOMAIN pools : pools[id].ends <= 1

C12_Witness ==
    \E p \in Callers :
        /\ ~overlapped
        /\ Settled(p, "disconnect") /\ Fulfilled(p)
        /\ hist[p].startPool = 0 /\ ~hist[p].endCalled
        /\ Len(pools) = 1 /\ pools[1].ends = 1
        /\ pool = 0

(***************************************************************************)
(* Properties of the construction.                                         *)
(***************************************************************************)
\* C13: getInstance() with a connection string that new URL() rejects throws,
\* in the call itself, an error that starts with 'Invalid MySQL connection
\* string'; no instance and no pool exist afterwards, the attempt counter is
\* untouched and no call (hence no backoff or retry) is in flight.
C13_InvalidConnectionStringThrows ==
    (ctorOut # NotCalled /\ ~URL(mysqlUrl).ok)
        => /\ ctorOut.kind = "thrown"
           /\ ctorOut.message[1] = MsgInvalidConnectionString
           /\ instance = <<>>
           /\ pool = 0 /\ pools = <<>>
           /\ reconnectAttempts = 0
           /\ \A p \in Callers : Idle(p)

C13_Witness ==
    /\ mysqlUrl = <<"m", ":", "/", "/", "m", ":", "m">>
    /\ ctorOut = Thrown(<<MsgInvalidConnectionString, MsgInvalidUrl>>)
    /\ instance = <<>>

(***************************************************************************)
(* Properties of the backoff.                                              *)
(***************************************************************************)
BackoffTable == <<1000, 2000, 4000, 8000, 16000>>

\* C14: the timer that handleConnectionError awaits before the k-th retry,
\* k being the attempt counter just incremented, runs for 1000 * 2^(k-1) ms:
\* k is one of 1..5 and the delay is the k-th of 1000, 2000, 4000, 8000,
\* 16000; the timers of one call come in ascending order of k, and one after
\* the other when no other call runs.
C14_BackoffDelays ==
    \A p \in Callers :
        LET d == hist[p].delays
        IN /\ \A i \in DOMAIN d :
                /\ d[i].attempt \in 1..maxReconnectAttempts
                /\ d[i].delay = BackoffTable[d[i].attempt]
           /\ \A i \in 1..(Len(d) - 1) :
                /\ d[i + 1].attempt > d[i].attempt
                /\ ~overlapped => d[i + 1].attempt = d[i].attempt + 1

C14_Witness ==
    \E p \in Callers :
        /\ Settled(p, "connect")
        /\ Failed(p)
        /\ hist[p].delays = [k \in 1..5 |-> [attempt |-> k, delay |-> BackoffTable[k]]]

(***************************************************************************)
(* Properties of getById, removeEntry and searchEntries.                   *)
(***************************************************************************)
OpDone(p, name) == opName[p] = name /\ opPc[p] = "done"
OpAnswered(p, name) == OpDone(p, name) /\ opOut[p].kind = "returned"

\* An optional input string that is missing, empty or whitespace-only
Blank(opt) == opt = None \/ \A i \in DOMAIN opt[1] : opt[1][i] = " "

\* The field an optional input string is read back as
ReadBack(opt) == IF Blank(opt) THEN None ELSE Some(Trim(opt[1]))

\* getById(id) of caller p was issued after the addEntry of caller q had
\* returned id, and answered while the entry was stored
GetFollowsAdd(p, q) ==
    /\ OpAnswered(p, "getById")
    /\ svcPc[q] = "done"
    /\ svcOut[q] = Resolved(opId[p])
    /\ RowsById(opSnap[p], opId[p]) # {}
    /\ RowsById(opEnd[p], opId[p]) # {}

\* C15: addEntry of an input that is valid once sanitized, followed by
\* getById of the id it returned (answered while no removeEntry has deleted
\* it), yields an entry whose identifier and createdBy are the trimmed input
\* values and whose firstName and lastName are the trimmed input values, or
\* absent when the input value was missing, empty or whitespace-only.
C15_AddThenGetRoundTrip ==
    \A p, q \in Callers :
        GetFollowsAdd(p, q)
            => /\ validateBlacklistEntry(sanitizeBlacklistEntryInput(svcArg[q])).isValid
               /\ opOut[p].val # None
               /\ LET entry == opOut[p].val[1]
                      input == svcArg[q]
                  IN /\ entry.id = opId[p]
                     /\ entry.identifier = Trim(input.identifier)
                     /\ entry.createdBy = Trim(input.createdBy)
                     /\ entry.firstName = ReadBack(input.firstName)
                     /\ entry.lastName = ReadBack(input.lastName)

C15_Witness ==
    \E p, q \in Callers :
        /\ GetFollowsAdd(p, q)
        /\ svcArg[q] = EntryInput(<<" ", "a">>, <<"u", " ">>, Some(<<"j", " ">>), Some(<<" ">>))
        /\ opOut[p].val = Some([id |-> opId[p], identifier |-> <<"a">>,
                                createdBy |-> <<"u">>, firstName |-> Some(<<"j">>),
                                lastName |-> None])

\* C16: searchEntries with criteria whose fields are all absent, empty or
\* whitespace-only rejects with 'Search validation failed' in the call
\* itself; repository.search is never invoked.
C16_EmptySearchRejected ==
    \A p \in Callers :
        (/\ opName[p] = "searchEntries"
         /\ Blank(opCriteria[p].identifier)
         /\ Blank(opCriteria[p].firstName)
         /\ Blank(opCriteria[p].lastName))
            => /\ opPc[p] = "done"
               /\ opOut[p] = OpThrown(MsgSearchValidation)
               /\ opCalled[p] = {}

C16_Witness ==
    \E p \in Callers :
        /\ OpDone(p, "searchEntries")
        /\ opCriteria[p] = Criteria(Some(<<" ", " ">>), None, Some(<<>>))
        /\ opOut[p] = OpThrown(MsgSearchValidation)
        /\ store # {}

\* removeEntry(id) of caller p has settled, its queries having answered, and
\* id had no stored entry from the start of the call to its end: it was
\* deleted before the call or not created until after it
RemoveOfMissing(p) ==
    /\ OpDone(p, "removeEntry")
    /\ opId[p] > 0
    /\ RowsById(opSnap[p], opId[p]) = {}
    /\ RowsById(opEnd[p], opId[p]) = {}
    /\ opId[p] \in opSaw[p] \/ opId[p] \notin removed
    /\ "findById:error" \notin opCalled[p]

RemoveOfStored(p) ==
    /\ OpDone(p, "removeEntry")
    /\ RowsById(opSnap[p], opId[p]) # {}

\* C18 as stated: removeEntry(id) for an id stored when the call starts
\* returns true.
C18_RemoveStoredReturnsTrue ==
    \A p \in Callers :
        RemoveOfStored(p) => opOut[p].kind = "returned" /\ opOut[p].val = TRUE

\* C18 amended: removeEntry(id) for an id stored when the call starts returns
\* true and has deleted the entry, unless another removeEntry(id) deleted it
\* while the call ran, in which case it returns false, or one of its queries
\* failed, in which case it rejects with 'Failed to remove blacklist entry';
\* every getById(id) that starts after a removeEntry(id) has returned true
\* and that answers yields null.
C18_RemoveStoredThenGetNull ==
    /\ \A p \in Callers :
          RemoveOfStored(p)
              => \/ /\ opOut[p].kind = "returned"
                    /\ opOut[p].val = TRUE
                    /\ opId[p] \in removed
                    /\ RowsById(opEnd[p], opId[p]) = {}
                 \/ /\ opOut[p].kind = "returned"
                    /\ opOut[p].val = FALSE
                    /\ opId[p] \in removed \ opSaw[p]
                 \/ /\ opOut[p] = OpThrown(MsgRemoveFailed)
                    /\ opCalled[p] \cap {"findById:error", "deleteById:error"} # {}
    /\ \A p \in Callers :
          (OpAnswered(p, "getById") /\ opId[p] \in opSaw[p])
              => opOut[p].val = None

C18_Witness ==
    \E p, q \in Callers :
        /\ RemoveOfStored(p)
        /\ opOut[p] = OpReturned(TRUE)
        /\ OpAnswered(q, "getById")
        /\ opId[q] = opId[p]
        /\ opId[q] \in opSaw[q]
        /\ opOut[q].val = None

(***************************************************************************)
(* Properties of the failures of addEntry.                                 *)
(***************************************************************************)
\* An optional name longer than the bound
TooLong(opt, maxLen) == opt # None /\ Len(opt[1]) > maxLen

\* The sanitized input breaks a constraint: an identifier or a createdBy
\* that is empty or too long, a name that is too long
ViolatesConstraint(entry) ==
    \/ entry.identifier = <<>>
    \/ Len(entry.identifier) > MaxIdentifierLen
    \/ entry.createdBy = <<>>
    \/ Len(entry.createdBy) > MaxCreatedByLen
    \/ TooLong(entry.firstName, MaxNameLen)
    \/ TooLong(entry.lastName, MaxNameLen)

\* C19: an addEntry call whose sanitized input violates a validation
\* constraint rejects with 'Validation failed' in the call itself: it calls
\* neither repository.exists nor repository.create and the store is as it
\* was.
C19_InvalidInputRejectedFirst ==
    \A p \in Callers :
        (svcPc[p] # "idle" /\ ViolatesConstraint(sanitizeBlacklistEntryInput(svcArg[p])))
            => /\ svcPc[p] = "done"
               /\ svcOut[p] = Rejected(MsgValidation)
               /\ svcCalled[p] = {}
               /\ svcEnd[p] = svcSnap[p]

C19_Witness ==
    \E p \in Callers :
        /\ svcPc[p] = "done"
        /\ svcArg[p] = EntryInput(<<"a">>, <<>>, None, Some(<<"d">>))
        /\ svcOut[p] = Rejected(MsgValidation)
        /\ store # {}
        /\ svcSnap[p] = store

\* C20: when the existence query of the duplicate check fails, addEntry
\* rejects with 'Failed to verify entry uniqueness', not with a 'Duplicate
\* entry' error, and repository.create is never called; the store is as it
\* was when the query failed.
C20_ExistenceFailureIsDistinct ==
    \A p \in Callers :
        "exists:error" \in svcCalled[p]
            => /\ svcPc[p] = "done"
               /\ svcOut[p] = Rejected(MsgVerifyFailed)
               /\ svcOut[p].msg # MsgDuplicate
               /\ "create" \notin svcCalled[p]
               /\ svcCalled[p] = {"exists", "exists:error"}

C20_Witness ==
    \E p \in Callers :
        /\ svcPc[p] = "done"
        /\ "exists:error" \in svcCalled[p]
        /\ svcOut[p] = Rejected(MsgVerifyFailed)
        /\ svcHad[p]

(***************************************************************************)
(* Properties of the repository methods.                                   *)
(***************************************************************************)
\* The row satisfies the predicates the sanitized criteria supply: an equal
\* identifier, a first name and a last name that contain the given strings
Satisfies(row, criteria) ==
    /\ criteria.identifier # None => row.identifier = criteria.identifier[1]
    /\ criteria.firstName # None
          => row.first_name # None /\ Contains(row.first_name[1], criteria.firstName[1])
    /\ criteria.lastName # None
          => row.last_name # None /\ Contains(row.last_name[1], criteria.lastName[1])

\* C21: search with valid criteria returns exactly the stored entries that
\* satisfy all the supplied predicates: identifier equal to the one given,
\* first name containing the given first name as a substring, last name
\* containing the given last name as a substring; an entry without a name
\* never matches a criterion on that name.
C21_SearchReturnsExactlyMatching ==
    \A p \in Callers :
        OpAnswered(p, "search")
            => opOut[p].val =
                 {mapRowToEntry(r) :
                    r \in {x \in opEnd[p] :
                             Satisfies(x, sanitizeSearchCriteria(opCriteria[p]))}}

\* The entry has a name that contains a name the caller supplied
MatchesSuppliedName(entry, firstName, lastName) ==
    \/ /\ Truthy(firstName) /\ entry.firstName # None
       /\ Contains(entry.firstName[1], Trim(firstName[1]))
    \/ /\ Truthy(lastName) /\ entry.lastName # None
       /\ Contains(entry.lastName[1], Trim(lastName[1]))

\* C22: every statement findByName sends carries at least one LIKE predicate
\* on a name, so that the call rejects or returns only entries that match a
\* supplied name.
C22_FindByNameAlwaysFiltered ==
    \A p \in Callers :
        (opName[p] = "findByName" /\ opPc[p] # "idle")
            => /\ "query" \in opCalled[p] => Len(opQuery[p].where) >= 1
               /\ opOut[p].kind = "returned"
                     => \A entry \in opOut[p].val :
                           MatchesSuppliedName(entry, opCriteria[p].firstName,
                                               opCriteria[p].lastName)

\* C23: deleteById(id) returns true if and only if its statement removed a
\* stored row with that id; when no row has the id the statement succeeds,
\* the store stays as it is and the call returns false.
C23_DeleteByIdReportsRemoval ==
    [][\A p \in Callers :
         (/\ opName[p] = "deleteById"
          /\ opPc[p] = "repo"
          /\ opPc'[p] = "done"
          /\ opOut'[p].kind = "returned")
            => /\ opOut'[p].val = TRUE
                    <=> /\ RowsById(store, opId[p]) # {}
                        /\ RowsById(store', opId[p]) = {}
               /\ RowsById(store, opId[p]) = {}
                    => opOut'[p].val = FALSE /\ store' = store
               /\ \A r \in store : r.id # opId[p] => r \in store']_vars

C23_Witness ==
    \E p \in Callers :
        /\ OpAnswered(p, "deleteById")
        /\ opId[p] = 2
        /\ RowsById(opSnap[p], 2) # {}
        /\ opOut[p].val = TRUE
        /\ store = opSnap[p] \ RowsById(opSnap[p], 2)
        /\ store # {}

\* The step is the INSERT of an addEntry call
AddsEntry ==
    \E p \in Callers :
        /\ svcPc[p] = "insert"
        /\ svcPc'[p] = "done"
        /\ \E r \in store' : r.id = nextId /\ store' = store \cup {r}

\* The step is the DELETE of a removeEntry call
RemovesEntry ==
    \E p \in Callers :
        /\ opName[p] = "removeEntry"
        /\ opPc[p] = "rm_delete"
        /\ opPc'[p] = "done"
        /\ store' = store \ RowsById(store, opId[p])

\* C24: no operation modifies a stored entry: as long as a row with its id is
\* stored, the row is the same (id, identifier, names, createdBy; created_at
\* is set by the table default and no statement names it); the store changes
\* only in the INSERT of addEntry/create and in the DELETE of
\* removeEntry/deleteById.
C24_EntriesImmutable ==
    [][/\ \A r \in store : (\E r2 \in store' : r2.id = r.id) => r \in store'
       /\ \A r1, r2 \in store' : r1.id = r2.id => r1 = r2
       /\ store' # store => AddsEntry \/ RemovesEntry]_vars

C24_Witness ==
    \E p, q \in Callers :
        /\ p # q
        /\ OpAnswered(p, "getById")
        /\ opOut[p].val # None
        /\ OpAnswered(q, "searchEntries")
        /\ store # {}
        /\ store = opSnap[p]
        /\ store = opSnap[q]

\* C25: when the query of a repository method rejects, the method rejects
\* with its own error ('Failed to ...'); it never resolves with a value, and
\* the store is as it was.
C25_QueryFailureRejects ==
    \A p \in Callers :
        "query:error" \in opCalled[p]
            => /\ opPc[p] = "done"
               /\ opOut[p].kind = "thrown"
               /\ opOut[p].msg =
                    (CASE opName[p] = "create" -> "Failed to create blacklist entry"
                       [] opName[p] = "findByIdentifier" -> "Failed to search blacklist entries"
                       [] opName[p] = "findByName" -> "Failed to search blacklist entries by name"
                       [] opName[p] = "search" -> "Failed to search blacklist entries"
                       [] opName[p] = "findById" -> "Failed to find blacklist entry"
                       [] opName[p] = "deleteById" -> "Failed to delete blacklist entry"
                       [] opName[p] = "exists" -> "Failed to check blacklist entry existence")
               /\ opEnd[p] = opSnap[p]

C25_Witness ==
    \E p \in Callers :
        /\ OpDone(p, "deleteById")
        /\ "query:error" \in opCalled[p]
        /\ opOut[p] = OpThrown(MsgRepoDeleteFailed)
        /\ RowsById(store, opId[p]) # {}

(***************************************************************************)
(* Properties of the validation functions.                                 *)
(***************************************************************************)
IdentifierMessages ==
    {"Identifier cannot be empty", "Identifier cannot exceed 255 characters",
     "Identifier cannot be empty when provided"}
CreatedByMessages ==
    {"CreatedBy cannot be empty", "CreatedBy cannot exceed 20 characters"}
FirstNameMessages ==
    {"FirstName cannot exceed 100 characters", "FirstName cannot be empty when provided"}
LastNameMessages ==
    {"LastName cannot exceed 100 characters", "LastName cannot be empty when provided"}

\* The number of messages of the list that are about one field
About(errors, messages) == Cardinality({i \in DOMAIN errors : errors[i] \in messages})

AllSpaces(s) == \A i \in DOMAIN s : s[i] = " "

\* The field of an entry violates its constraint: a required string that is
\* empty or blank, a string longer than its bound
EntryViolations(input) ==
    [identifier |-> AllSpaces(input.identifier) \/ Len(input.identifier) > 255,
     createdBy |-> AllSpaces(input.createdBy) \/ Len(input.createdBy) > 20,
     firstName |-> input.firstName # None /\ Len(input.firstName[1]) > 100,
     lastName |-> input.lastName # None /\ Len(input.lastName[1]) > 100]

\* The field of search criteria violates its constraint: a string that is
\* given but empty or blank, a string longer than its bound
CriteriaViolations(criteria) ==
    [identifier |-> /\ criteria.identifier # None
                    /\ \/ AllSpaces(criteria.identifier[1])
                       \/ Len(criteria.identifier[1]) > 255,
     createdBy |-> FALSE,
     firstName |-> /\ criteria.firstName # None
                   /\ \/ AllSpaces(criteria.firstName[1])
                      \/ Len(criteria.firstName[1]) > 100,
     lastName |-> /\ criteria.lastName # None
                  /\ \/ AllSpaces(criteria.lastName[1])
                     \/ Len(criteria.lastName[1]) > 100]

\* The list holds one message for each violating field and none for the
\* others
OnePerViolation(errors, violations) ==
    /\ About(errors, IdentifierMessages) = IF violations.identifier THEN 1 ELSE 0
    /\ About(errors, CreatedByMessages) = IF violations.createdBy THEN 1 ELSE 0
    /\ About(errors, FirstNameMessages) = IF violations.firstName THEN 1 ELSE 0
    /\ About(errors, LastNameMessages) = IF violations.lastName THEN 1 ELSE 0

HasClause(q, col) == \E i \in DOMAIN q.where : q.where[i].col = col

\* Every LIKE parameter of the statement is %v% for a string v that is not
\* empty and has no white space at its ends
LikeParamsWrapTrimmed(q) ==
    \A i \in DOMAIN q.where :
        q.where[i].cmp = "LIKE"
            => \E v \in {SubSeq(q.params[i], 2, Len(q.params[i]) - 1)} :
                  /\ q.params[i] = Wrap(v)
                  /\ v # <<>>
                  /\ Trim(v) = v

\* C27: in every query issued through searchEntries / Repository.search,
\* each name LIKE parameter wraps a non-empty trimmed string: a name that is
\* absent, empty or blank contributes no predicate, so '%%' is never sent.
C27_LikeParamsNeverEmpty ==
    \A p \in Callers :
        opName[p] \in {"search", "searchEntries"}
            => /\ LikeParamsWrapTrimmed(opQuery[p])
               /\ \A i \in DOMAIN opQuery[p].params : opQuery[p].params[i] # <<"%", "%">>
               /\ ~Usable(opCriteria[p].firstName) => ~HasClause(opQuery[p], "first_name")
               /\ ~Usable(opCriteria[p].lastName) => ~HasClause(opQuery[p], "last_name")

\* search({identifier: 'a', firstName: ' ', lastName: 'd '}) has sent
\* `identifier = 'a' AND last_name LIKE '%d%'`
C27_Witness ==
    \E p \in Callers :
        /\ opName[p] = "search"
        /\ opCriteria[p] = Criteria(Some(<<"a">>), Some(<<" ">>), Some(<<"d", " ">>))
        /\ opQuery[p] = Query(<<Clause("identifier", "="), Clause("last_name", "LIKE")>>,
                              <<<<"a">>, <<"%", "d", "%">>>>)
        /\ opOut[p].kind = "returned"

(***************************************************************************)
(* Properties of the commands and of the permission middleware.            *)
(***************************************************************************)
ServiceCalls == {"addEntry", "getById", "removeEntry"}

IsCommand(p) == cmdName[p] \in {"addbl", "removebl"}

\* The command of p has called the service
CalledService(p) == \E i \in DOMAIN cmdLog[p] : cmdLog[p][i].call \in ServiceCalls

\* C28: in AddBlacklistCommand.execute and RemoveBlacklistCommand.execute no
\* service operation (addEntry, getById, removeEntry) is invoked unless
\* requireAdmin has first returned allowed = true for that interaction; a
\* denied caller gets a reply (reply is called with the denial) and the
\* table is not changed by its command.
C28_ServiceOnlyAfterAllowed ==
    /\ [](\A p \in Callers :
            IsCommand(p)
                => /\ \A i \in DOMAIN cmdLog[p] :
                        cmdLog[p][i].call \in ServiceCalls
                            => /\ cmdPerm[p] = PermAllowed
                               /\ \E j \in 1..(i - 1) :
                                     cmdLog[p][j] = Call("requireAdmin", "allowed")
                   /\ ~cmdPerm[p].allowed
                        => /\ svcPc[p] = "idle"
                           /\ opPc[p] = "idle"
                   /\ cmdPerm[p].kind = "returned" /\ ~cmdPerm[p].allowed
                        => cmdLog[p][Len(cmdLog[p])]
                              = Call("reply", cmdPerm[p].errorMessage))
    /\ [][store' # store
            => \E p \in Callers :
                  /\ cmdPerm[p].allowed
                  /\ svcPc[p] = "insert" \/ opPc[p] = "rm_delete"]_vars

\* /removebl of a member without the admin role has replied with the denial
\* next to an admin's /removebl that has removed the entry
C28_Witness ==
    \E p, q \in Callers :
        /\ cmdName[p] = "removebl"
        /\ cmdPc[p] = "done"
        /\ cmdLog[p] = <<Call("checkAdminRole", "false"), Call("requireAdmin", "denied"),
                         Call("reply", MsgAdminRequired)>>
        /\ opPc[p] = "idle"
        /\ cmdName[q] = "removebl"
        /\ cmdPerm[q] = PermAllowed
        /\ CalledService(q)
        /\ store = {}

\* The command of p has made the call
Logged(p, call) == \E i \in DOMAIN cmdLog[p] : cmdLog[p][i] = call

\* C29: requireAdmin fails closed: it returns allowed = true only when the
\* interaction is in a guild and checkAdminRole resolved true; when the role
\* check returns false or rejects, or an exception is raised, it returns
\* allowed = false with an error message, and it never throws.
C29_RequireAdminFailsClosed ==
    \A p \in Callers :
        cmdPerm[p] # PermPending
            => /\ cmdPerm[p].kind = "returned"
               /\ cmdPerm[p].allowed
                    <=> /\ ~cmdIx[p].null
                        /\ cmdIx[p].guild
                        /\ cmdIx[p].member = "admin"
                        /\ Logged(p, Call("checkAdminRole", "true"))
               /\ ~cmdPerm[p].allowed => cmdPerm[p].errorMessage # ""
               /\ (\/ Logged(p, Call("checkAdminRole", "false"))
                   \/ Logged(p, Call("checkAdminRole", "rejects"))
                   \/ cmdIx[p].null) => ~cmdPerm[p].allowed

\* requireAdmin(null) and requireAdmin with a role check that rejects have
\* both returned the denial of the catch block
C29_Witness ==
    \E p, q \in Callers :
        /\ cmdName[p] = "requireAdmin"
        /\ cmdIx[p] = NullInteraction
        /\ cmdPerm[p] = PermDenied(MsgPermissionError)
        /\ cmdLog[p] = <<Call("requireAdmin", "denied")>>
        /\ cmdName[q] = "requireAdmin"
        /\ cmdIx[q] = Interaction(TRUE, "admin", "rejects")
        /\ cmdPerm[q] = PermDenied(MsgPermissionError)
        /\ cmdLog[q] = <<Call("checkAdminRole", "rejects"), Call("requireAdmin", "denied")>>

(***************************************************************************)
(* Closing a pool while its connections are in use.                        *)
(***************************************************************************)
\* A query or transaction of a caller other than p holds a connection of
\* pool id
HeldByOther(id, p) ==
    \E q \in Callers \ {p} :
        /\ hist[q].op \in {"query", "transaction"}
        /\ \E j \in DOMAIN hist[q].held : hist[q].held[j] = id

\* C30: the connection manager never closes a pool (pool.end through
\* disconnect or reconnect) while a connection acquired from that pool is
\* still held by an in-flight query or transaction of another caller.
C30_NoCloseWhileHeld ==
    \A p \in Callers : \A id \in DOMAIN pools : Ending(p, id) => ~HeldByOther(id, p)

(***************************************************************************)
(* The pools the manager has created.                                      *)
(***************************************************************************)
\* The number of pool.end() calls made on pool id: settled and in flight
EndCalls(id) == pools[id].ends + Cardinality({p \in Callers : Ending(p, id)})

\* C31: under any interleaving of concurrent connect, getConnection (with
\* its reconnect path) and disconnect calls, every pool the manager has
\* created is either the installed pool or has been closed (no open pool is
\* orphaned by the pool reference being overwritten or nulled), and no pool
\* is ended twice.
C31_NoOrphanNoDoubleEnd ==
    \A id \in DOMAIN pools :
        /\ id = pool \/ pools[id].ends > 0
        /\ EndCalls(id) <= 1

\* C32: after a connect() call rejects (with the terminal error of the
\* retry budget or with a non-retryable error) no pool is left installed:
\* isConnected() is false, so that the next connect() creates and probes a
\* pool instead of returning at once.
C32_NoPoolAfterRejectedConnect ==
    \A p \in Callers :
        (Settled(p, "connect") /\ Failed(p)) => hist[p].endPool = 0

(***************************************************************************)
(* Concurrent removeEntry calls for one id.                                *)
(***************************************************************************)
\* removeEntry(id) calls that were issued while id was stored
RemoversOf(id) ==
    {p \in Callers : /\ opName[p] = "removeEntry"
                     /\ opId[p] = id
                     /\ RowsById(opSnap[p], id) # {}}

NoQueryRejected(p) == opCalled[p] \cap {"findById:error", "deleteById:error"} = {}

\* p's removeEntry returns true in this step
ReturnsTrueNow(p) ==
    /\ opName[p] = "removeEntry"
    /\ opPc[p] # "done"
    /\ opPc'[p] = "done"
    /\ opOut'[p] = OpReturned(TRUE)

AttemptFailsNonRetryable(p, err) ==
    /\ ~shouldRetry(err)
    /\ hist'[p].op = "connect"
    /\ \/ /\ err.src = "createPool"
          /\ createPool = err.kind
          /\ pool = 0
          /\ StartConnect(p)
       \/ /\ err.src = "acquire"
          /\ TestAcquireFail(p, err.kind)
       \/ /\ err.src = "ping"
          /\ TestPingFail(p, err.kind)

\* C34: when a connect() attempt fails with an error the error handler
\* classifies as non-retryable, connect() rethrows that same error at once:
\* no backoff delay is taken, the attempt counter is not incremented and no
\* further attempt is made.
C34_NonRetryableRethrownAtOnce ==
    [][\A p \in Callers : \A src \in {"createPool", "acquire", "ping"} :
         \A kind \in ErrKinds :
            AttemptFailsNonRetryable(p, Err(src, kind))
                => /\ Done(p)'
                   /\ stack'[p][1].res = "err"
                   /\ stack'[p][1].err = Err(src, kind)
                   /\ reconnectAttempts' = reconnectAttempts
                   /\ Len(hist'[p].delays) = IF src = "createPool" THEN 0
                                             ELSE Len(hist[p].delays)
                   /\ Len(pools') = Len(pools)]_vars

\* connect() has rejected with the access-denied error of its probe, without
\* a delay and with the counter where it was
C34_Witness ==
    \E p \in Callers :
        /\ Settled(p, "connect")
        /\ Outcome(p).res = "err"
        /\ Outcome(p).err = Err("acquire", "ACCESS_DENIED")
        /\ hist[p].delays = <<>>
        /\ hist[p].startAttempts = 0
        /\ reconnectAttempts = 0

(***************************************************************************)
(* A transaction whose beginTransaction throws.                            *)
(***************************************************************************)
\* C35: if beginTransaction throws inside transaction(fn), fn is never
\* invoked and commit is never called; the connection is still released
\* exactly once and transaction rejects with the beginTransaction error.
C35_BeginFailureSkipsFnAndCommit ==
    \A p \in Callers :
        Has(hist[p].txlog, "begin:err")
            => /\ ~Has(hist[p].txlog, "fn")
               /\ ~Has(hist[p].txlog, "commit")
               /\ Count(hist[p].txlog, "release") <= 1
               /\ Settled(p, "transaction")
                    => /\ Count(hist[p].txlog, "release") = 1
                       /\ hist[p].held = <<>>
                       /\ ~hist[p].misreleased
                       /\ Failed(p)
                       /\ Outcome(p).err = Err("begin", "QUERY")

\* transaction(fn) has rejected with the error of beginTransaction after a
\* rollback that threw as well, and has released its connection
C35_Witness ==
    \E p \in Callers :
        /\ Settled(p, "transaction")
        /\ hist[p].txlog = <<"begin", "begin:err", "rollback", "rollback:err", "release">>
        /\ Outcome(p).err = Err("begin", "QUERY")
        /\ hist[p].held = <<>>

(***************************************************************************)
(* The reconnect attempt counter.                                          *)
(***************************************************************************)
\* C36: in every reachable state, including under concurrent failing
\* connect() calls, the reconnect attempt counter satisfies
\* 0 <= reconnectAttempts <= 5 (maxReconnectAttempts).
C36_ReconnectAttemptsBounded ==
    /\ reconnectAttempts >= 0
    /\ reconnectAttempts <= 5
    /\ reconnectAttempts <= maxReconnectAttempts

\* two connect() calls are in flight, both waiting on a retry timer after a
\* failed attempt, and the counter they share has reached the maximum
C36_Witness ==
    \E p, q \in Callers :
        /\ p # q
        /\ Waiting(p, "handleConnectionError", "delay")
        /\ Waiting(q, "handleConnectionError", "delay")
        /\ reconnectAttempts = maxReconnectAttempts

(***************************************************************************)
(* Placeholders and parameters of the search statement.                    *)
(***************************************************************************)
\* The field is present in the sanitized criteria
Present(opt) == opt # None /\ opt[1] # <<>>

\* The predicates the criteria ask for, each with the value of its
\* placeholder, in the order identifier, firstName, lastName
Predicates(criteria) ==
    (IF Present(criteria.identifier)
     THEN <<[clause |-> Clause("identifier", "="), value |-> criteria.identifier[1]]>>
     ELSE <<>>)
    \o (IF Present(criteria.firstName)
        THEN <<[clause |-> Clause("first_name", "LIKE"),
                value |-> <<"%">> \o criteria.firstName[1] \o <<"%">>]>>
        ELSE <<>>)
    \o (IF Present(criteria.lastName)
        THEN <<[clause |-> Clause("last_name", "LIKE"),
                value |-> <<"%">> \o criteria.lastName[1] \o <<"%">>]>>
        ELSE <<>>)

\* The call is a search whose criteria passed validation
ValidSearch(p) ==
    /\ opName[p] = "search"
    /\ validateSearchCriteria(sanitizeSearchCriteria(opCriteria[p])).isValid

\* C37: for every combination of present/absent identifier, firstName and
\* lastName in valid criteria, the statement built by search has exactly as
\* many '?' placeholders (one per predicate) as the parameter list has
\* values, and the values appear in placeholder order: identifier (exact),
\* then '%firstName%', then '%lastName%'.
C37_PlaceholdersMatchParams ==
    \A p \in Callers :
        ValidSearch(p)
            => LET expected == Predicates(sanitizeSearchCriteria(opCriteria[p]))
               IN /\ Len(opQuery[p].where) = Len(opQuery[p].params)
                  /\ Len(opQuery[p].where) = Len(expected)
                  /\ \A i \in DOMAIN expected :
                        /\ opQuery[p].where[i] = expected[i].clause
                        /\ opQuery[p].params[i] = expected[i].value

\* search({identifier: 'A ', firstName: 'j', lastName: 'd '}) has sent the
\* three predicates with the values 'A', '%j%', '%d%'
C37_Witness ==
    \E p \in Callers :
        /\ ValidSearch(p)
        /\ opCriteria[p] = Criteria(Some(<<"A", " ">>), Some(<<"j">>), Some(<<"d", " ">>))
        /\ opQuery[p] = Query(<<Clause("identifier", "="), Clause("first_name", "LIKE"),
                                Clause("last_name", "LIKE")>>,
                              <<<<"A">>, <<"%", "j", "%">>, <<"%", "d", "%">>>>)
        /\ opOut[p].kind = "returned"

(***************************************************************************)
(* /removebl: the preliminary getById.                                     *)
(***************************************************************************)
\* The getById of the /removebl command of p has settled and the command has
\* not yet continued
GetByIdSettled(p) ==
    /\ cmdName[p] = "removebl"
    /\ cmdPc[p] = "getById"
    /\ opName[p] = "getById"
    /\ opPc[p] = "done"

GetByIdReturnedNull(p) ==
    GetByIdSettled(p) /\ opOut[p].kind = "returned" /\ opOut[p].val = None

MsgNoEntryFound == "No blacklist entry found with ID"

\* C38: in RemoveBlacklistCommand.execute, when the preliminary getById(id)
\* returns null, removeEntry is never called and the user is told no entry
\* was found; removeEntry is called only after getById returned an entry for
\* that id.
C38_RemoveOnlyAfterEntryFound ==
    /\ [](\A p \in Callers :
            cmdName[p] = "removebl"
                => /\ Logged(p, Call("editReply", MsgNoEntryFound))
                        => ~Logged(p, Call("removeEntry", ""))
                   /\ \A i \in DOMAIN cmdLog[p] :
                        cmdLog[p][i] = Call("removeEntry", "")
                            => /\ i > 1
                               /\ cmdLog[p][i - 1] = Call("getById", "")
                   /\ GetByIdReturnedNull(p) => ~Logged(p, Call("removeEntry", "")))
    /\ [][\A p \in Callers :
            /\ GetByIdReturnedNull(p) /\ cmdLog'[p] # cmdLog[p]
                => /\ cmdLog'[p] = Append(cmdLog[p], Call("editReply", MsgNoEntryFound))
                   /\ cmdPc'[p] = "reply"
                   /\ opName'[p] = "getById"
            /\ cmdName[p] = "removebl" /\ ~Logged(p, Call("removeEntry", ""))
                                       /\ Logged(p, Call("removeEntry", ""))'
                => /\ GetByIdSettled(p)
                   /\ opOut[p].kind = "returned"
                   /\ opOut[p].val # None
                   /\ opOut[p].val[1].id = cmdArg[p].id
                   /\ opName'[p] = "removeEntry"
                   /\ opId'[p] = cmdArg[p].id]_vars

\* two /removebl 1 commands: the first has removed the entry and said so, the
\* getById of the second returned null and it has told the user that no entry
\* was found, without calling removeEntry
C38_Witness ==
    \E p, q \in Callers :
        /\ cmdName[p] = "removebl" /\ cmdName[q] = "removebl"
        /\ cmdArg[p].id = cmdArg[q].id
        /\ Logged(p, Call("removeEntry", ""))
        /\ Logged(p, Call("editReply", "Successfully removed blacklist entry"))
        /\ store = {}
        /\ cmdPc[q] = "done"
        /\ cmdLog[q][Len(cmdLog[q])] = Call("editReply", MsgNoEntryFound)
        /\ ~Logged(q, Call("removeEntry", ""))

(***************************************************************************)
(* The sanitizers applied twice.                                           *)
(***************************************************************************)
\* The optional string, when present, is not empty and has no white space
\* at either end
CleanIfPresent(opt) ==
    opt # None
        => /\ opt[1] # <<>>
           /\ ~IsSpace(opt[1][1])
           /\ ~IsSpace(opt[1][Len(opt[1])])

Sanitizers == {"sanitizeBlacklistEntryInput", "sanitizeSearchCriteria"}

\* C39: sanitizeBlacklistEntryInput and sanitizeSearchCriteria are idempotent
\* on string inputs: applying them twice gives the same result as applying
\* them once, and in the result every present optional field is a non-empty
\* string with no leading or trailing whitespace.
C39_SanitizersIdempotent ==
    fnName \in Sanitizers
        => /\ fnPrev # None => fnOut = fnPrev[1]
           /\ CleanIfPresent(fnOut.firstName)
           /\ CleanIfPresent(fnOut.lastName)
           /\ fnName = "sanitizeSearchCriteria" => CleanIfPresent(fnOut.identifier)

\* sanitizeBlacklistEntryInput applied twice to {identifier: ' a ',
\* createdBy: 'u ', firstName: ' j d ', lastName: ' '}
C39_Witness ==
    /\ fnName = "sanitizeBlacklistEntryInput"
    /\ fnIn.v = EntryInput(<<" ", "a", " ">>, <<"u", " ">>,
                           Some(<<" ", "j", " ", "d", " ">>), Some(<<" ">>))
    /\ fnPrev = Some(EntryInput(<<"a">>, <<"u">>, Some(<<"j", " ", "d">>), None))
    /\ fnOut = EntryInput(<<"a">>, <<"u">>, Some(<<"j", " ", "d">>), None)

=============================================================================
